---- MODULE Spec2Model ----
(***************************************************************************)
(* Model of the Turtle-trading repository: the backtest driver and ledger  *)
(* (Backtest_Turtule_trading_Stratgy_C.py) and the live bot               *)
(* (Turtule_trading_Stratgy_C.py).                                         *)
(*                                                                         *)
(* Number representation.  Prices are even integers, so that the midline   *)
(* (high + low) / 2 is an integer.  A daily return close[t]/close[t-1] - 1 *)
(* is held in units of 1/RetScale, which is exact for the prices used.     *)
(* The scaled volatility is held in units of 1/VolScale (integer square    *)
(* root); it is zero exactly when the exact variance is zero.  The capital *)
(* per period derived from it is kept on a grid of CapUnit money units, so *)
(* that every later quotient (amount, fee, pnl) is exact in integers.      *)
(***************************************************************************)
EXTENDS Integers, Sequences, FiniteSets, TLC

VARIABLES
    mode,                      \* which entry point of the repository runs
    active_coins,              \* config: backtest_coin_settings.target_coins
    long_only,                 \* config: backtest_coin_settings.long_only
    historical_data,           \* coin -> candle rows fetched (rows up to today)
    current_date,              \* the last simulated day
    positions,                 \* the ledger: position_key -> Position
    cash,
    trade_history,
    portfolio_history,
    portfolio_history_by_coin,
    tick_log,                  \* what the last tick printed
    last_call,                 \* the last direct call of a ledger method
    raised,                    \* the exception that call ended with, or "none"
    volatility_period,         \* config: strategy_settings.volatility_period
    \* the live bot
    live_pc,                   \* where the invocation is: idle, ticker, slot, finish
    live_run,                  \* invocations so far
    ticker_idx,                \* position of run()'s loop over active_coins
    period_idx,                \* position of run()'s loop over donchian_periods
    live_capital,              \* capital_per_period of the current ticker
    current_positions,         \* the ledger in memory
    positions_file,            \* the ledger persisted in ..._CurrentPositions.json
    csv_log,                   \* rows appended to ..._TradingLog.csv
    orders,                    \* market orders the exchange accepted
    alerts,                    \* messages delivered to the chat webhook
    live_log,                  \* what the last loop body printed and called
    \* the lock file of the live bot, and the processes started on it
    lock_pc,                   \* process -> where it is in acquire_lock / release_lock
    lock_handle,               \* process -> the inode its lock_file_handle is open on
    lock_path,                 \* the inode the lock file's path names, 0 if none
    inode_lock,                \* inode -> the process holding its flock, 0 if free
    next_inode,                \* inodes created so far
    \* a channel computation on its own
    ch_window,                 \* the candle rows given
    ch_period,
    ch_result,                 \* the channel computed from them, and by which code
    \* one invocation of main(), and the files save_json_file works on
    bot,                       \* main's variable bot: "None" or "object"
    save_pc,                   \* where a save_json_file call is, or how it ended
    files                      \* path -> the text the file holds

btvars == <<active_coins, long_only, historical_data, current_date, positions,
            cash, trade_history, portfolio_history, portfolio_history_by_coin,
            tick_log, last_call, raised, volatility_period>>

livevars == <<live_pc, live_run, ticker_idx, period_idx, live_capital, current_positions,
              positions_file, csv_log, orders, alerts, live_log>>

lockvars == <<lock_pc, lock_handle, lock_path, inode_lock, next_inode>>

chvars == <<ch_window, ch_period, ch_result>>

procvars == <<bot, save_pc, files>>

vars == <<mode, btvars, livevars, lockvars, chvars, procvars>>

(***************************************************************************)
(* Bounds of the model and configuration values.                           *)
(***************************************************************************)
MaxDays == 3                 \* simulated days of one backtest
MaxOrderDays == 2            \* simulated days of a backtest compared across orders
MaxCalls == 3                \* direct ledger calls of one ledger run
MaxRuns == 1                 \* invocations of the live bot
MaxLiveCalls == 2             \* direct calls of open_position and close_position
NumProcs == 3                \* processes started on the lock file
MaxWindow == 4               \* rows of a window given to a channel computation
Procs == 1..NumProcs

Coins == {"A", "B"}
Prices == {2, 4, 6}
donchian_periods == <<1, 2>>
PeriodSet == {donchian_periods[i] : i \in 1..Len(donchian_periods)}
VolPeriodSmall == 7          \* a volatility_period that keeps the warm-up short
VolPeriodLarge == 90         \* the volatility_period of the repository's configuration
LongWarmUps == {80, 84, 85}  \* warm-up rows fetched in the runs with VolPeriodLarge
VolTolerance == 5
VolHorizon == 90
RetScale == 6
VolScale == 10
TargetNum == 1               \* volatility_target = TargetNum / TargetDen
TargetDen == 4
FeeNum == 1                  \* fee_rate = FeeNum / FeeDen
FeeDen == 100
CapUnit == 1200
initial_capital == 4800000
UsageNum == 1                \* total_account_usage_ratio = UsageNum / UsageDen
UsageDen == 2
leverage_long == 2
leverage_short == 3
NaN == -1                    \* pandas' NaN (no number of the model is negative there)

strategy_investment == (initial_capital * UsageNum) \div UsageDen

(***************************************************************************)
(* Sequences, dictionaries.                                                *)
(***************************************************************************)
Tail_(s, n) == IF Len(s) <= n THEN s ELSE SubSeq(s, Len(s) - n + 1, Len(s))

DropLast(s) == IF s = <<>> THEN s ELSE SubSeq(s, 1, Len(s) - 1)

Column(df, f) == [i \in 1..Len(df) |-> df[i][f]]

RECURSIVE SumRange(_, _, _)
SumRange(s, lo, hi) ==
    IF lo > hi THEN 0
    ELSE IF lo = hi THEN s[lo]
    ELSE LET mid == (lo + hi) \div 2 IN SumRange(s, lo, mid) + SumRange(s, mid + 1, hi)

SeqSum(s) == SumRange(s, 1, Len(s))

SeqMax(s) == CHOOSE m \in {s[i] : i \in 1..Len(s)} : \A i \in 1..Len(s) : s[i] <= m

SeqMin(s) == CHOOSE m \in {s[i] : i \in 1..Len(s)} : \A i \in 1..Len(s) : m <= s[i]

DictSet(d, k, v) == [x \in (DOMAIN d) \cup {k} |-> IF x = k THEN v ELSE d[x]]

DictPop(d, k) == [x \in (DOMAIN d) \ {k} |-> d[x]]

\* the integer square root, by bisection: lo * lo <= x < hi * hi
RECURSIVE ISqrtBetween(_, _, _)
ISqrtBetween(x, lo, hi) ==
    IF hi - lo <= 1 THEN lo
    ELSE LET mid == (lo + hi) \div 2 IN
         IF mid * mid <= x THEN ISqrtBetween(x, mid, hi) ELSE ISqrtBetween(x, lo, mid)

ISqrt(x) == ISqrtBetween(x, 0, 46340)

(***************************************************************************)
(* Candles.  A row is [date, high, low, close]; a bar is a row without its *)
(* date.  Every bar has low <= close <= high.                              *)
(***************************************************************************)
FlatBar(p) == [high |-> p, low |-> p, close |-> p]

Bars == {FlatBar(p) : p \in Prices}

WideBar == [high |-> 6, low |-> 2, close |-> 4]

Row(d, bar) == [date |-> d, high |-> bar.high, low |-> bar.low, close |-> bar.close]

NumLt(a, b) == a # NaN /\ b # NaN /\ a < b

NumGt(a, b) == a # NaN /\ b # NaN /\ a > b

(***************************************************************************)
(* Volatility scaler of the backtest driver (run_backtest, lines 263-279). *)
(***************************************************************************)
pct_change_dropna(close) ==
    [i \in 1..(Len(close) - 1) |-> (RetScale * close[i + 1]) \div close[i] - RetScale]

\* n * (n - 1) * (sample variance of the returns), in units of 1/RetScale^2
SumSqDev(returns) ==
    Len(returns) * SeqSum([i \in 1..Len(returns) |-> returns[i] * returns[i]])
        - SeqSum(returns) * SeqSum(returns)

\* daily_returns.std() * sqrt(90), in units of 1/VolScale; NaN below two returns
period_90_vol_of(returns) ==
    LET n == Len(returns) IN
    IF n < 2 THEN NaN
    ELSE ISqrt((VolHorizon * VolScale * VolScale * SumSqDev(returns))
                   \div (RetScale * RetScale * n * (n - 1)))

\* a scaler that takes any number of returns for enough
EnoughReturns_Always(n_returns, vol_period) == TRUE

\* a threshold that asks for one return more
EnoughReturns_OneMore(n_returns, vol_period) == ~(n_returns <= vol_period - VolTolerance)

EnoughReturns(n_returns, vol_period) == ~(n_returns < vol_period - VolTolerance)

\* the scaler: which branch of lines 263-275 an asset takes on a tick
VolatilityScaler(data_until_today, vol_period) ==
    LET vol_data == Tail_(data_until_today, vol_period + 1)
        daily_returns == pct_change_dropna(Column(vol_data, "close"))
        vol == period_90_vol_of(daily_returns)
    IN  IF ~EnoughReturns(Len(daily_returns), vol_period)
        THEN [status |-> "insufficient", n_returns |-> Len(daily_returns), vol |-> NaN]
        ELSE IF vol = 0
        THEN [status |-> "zero", n_returns |-> Len(daily_returns), vol |-> vol]
        ELSE [status |-> "ok", n_returns |-> Len(daily_returns), vol |-> vol]

\* base_capital_per_coin * (volatility_target / period_90_vol) / len(donchian_periods)
capital_per_period_of(base_capital_per_coin, vol) ==
    IF vol = NaN THEN NaN
    ELSE CapUnit * ((base_capital_per_coin * TargetNum * VolScale)
                        \div (TargetDen * vol * Len(donchian_periods) * CapUnit))

(***************************************************************************)
(* Donchian channel of the backtest driver (run_backtest, lines 299-310).  *)
(***************************************************************************)
RollingMaxLast(s, window) == IF Len(s) < window THEN NaN ELSE SeqMax(Tail_(s, window))

RollingMinLast(s, window) == IF Len(s) < window THEN NaN ELSE SeqMin(Tail_(s, window))

Midline(high, low) == IF high = NaN \/ low = NaN THEN NaN ELSE (high + low) \div 2

\* a channel over the last `period` rows, the reference bar among them
BacktestChannel_WithReference(data_until_today, period) ==
    LET channel_data == Tail_(data_until_today, period)
        high == RollingMaxLast(Column(channel_data, "high"), period)
        low == RollingMinLast(Column(channel_data, "low"), period)
    IN  [high |-> high, low |-> low, midline |-> Midline(high, low),
         last_close |-> channel_data[Len(channel_data)].close]

BacktestChannel(data_until_today, period) ==
    LET channel_data == Tail_(data_until_today, period + 1)
        relevant_data == DropLast(channel_data)
        high == RollingMaxLast(Column(relevant_data, "high"), period)
        low == RollingMinLast(Column(relevant_data, "low"), period)
    IN  [high |-> high, low |-> low, midline |-> Midline(high, low),
         last_close |-> channel_data[Len(channel_data)].close]

\* line 295 and line 300: the two data guards of a slot
EnoughCandles(data_until_today, period) ==
    /\ ~(Len(data_until_today) < period + 2)
    /\ ~(Len(Tail_(data_until_today, period + 1)) < period + 1)

(***************************************************************************)
(* Donchian channel of the live bot (get_donchian_channel).  ohlcv is what *)
(* GetOhlcv returned for count = period + 2: at most period + 2 rows.      *)
(***************************************************************************)
get_donchian_channel(ohlcv, period) ==
    IF ohlcv = <<>> \/ Len(ohlcv) < period + 2
    THEN [ok |-> FALSE]
    ELSE LET completed_ohlcv == DropLast(ohlcv)
             channel_data == Tail_(completed_ohlcv, period)
             high == SeqMax(Column(channel_data, "high"))
             low == SeqMin(Column(channel_data, "low"))
         IN  [ok |-> TRUE, high |-> high, low |-> low, midline |-> (high + low) \div 2,
              last_close |-> completed_ohlcv[Len(completed_ohlcv)].close]

(***************************************************************************)
(* Signals (run_backtest lines 318-337, run lines 309-330).                *)
(***************************************************************************)
\* a driver that takes every slot for FLAT
NotCurrentPos_Always(pos_map, position_key) == TRUE

\* current_pos = positions.get(position_key); if not current_pos
NotCurrentPos(pos_map, position_key) == position_key \notin DOMAIN pos_map

\* an entry test that a tie with the upper bound passes
LongEntry_OrTie(last_close, high) == last_close # NaN /\ high # NaN /\ last_close >= high

LongEntry(last_close, high) == NumGt(last_close, high)

ShortEntry(last_close, low, settings) == ~settings.long_only /\ NumLt(last_close, low)

LongExit(pos, last_close, midline) == pos.side = "LONG" /\ NumLt(last_close, midline)

ShortExit(pos, last_close, midline) == pos.side = "SHORT" /\ NumGt(last_close, midline)

(***************************************************************************)
(* The ledger (simulate_open, simulate_close).  st is the part of the      *)
(* backtester's state a tick changes: positions, cash, trade_history, the  *)
(* printed log and the exception raised, if any.                           *)
(***************************************************************************)
KeyOf(ticker, period) == [ticker |-> ticker, period |-> period]   \* f"{ticker}-{period}"

StrOf(x) == [str |-> x]                                           \* the text of a number

SplitKey(position_key) == <<position_key.ticker, StrOf(position_key.period)>>   \* key.split('-')

\* an open that charges its fee on the capital, not on the notional value
simulate_open_FeeOnCapital(st, date, ticker, period, side, capital, settings, price) ==
    LET leverage == IF side = "LONG" THEN settings.long_leverage ELSE settings.short_leverage
        notional_value == capital * leverage
        amount == notional_value \div price
        fee == (capital * FeeNum) \div FeeDen
        pos == [side |-> side, amount |-> amount, entry_price |-> price,
                leverage |-> leverage, entry_date |-> date, ticker |-> ticker]
        trade_log == [date |-> date, ticker |-> ticker, period |-> period, action |-> "OPEN",
                      side |-> side, amount |-> amount, price |-> price,
                      value |-> notional_value, leverage |-> leverage, pnl |-> 0 - fee]
    IN  [st EXCEPT !.cash = @ - fee,
                   !.positions = DictSet(@, [ticker |-> ticker, period |-> period], pos),
                   !.trade_history = Append(@, trade_log)]

\* an open that sizes the position from the cash left, so that an earlier open of
\* the same tick changes it
simulate_open_CashSized(st, date, ticker, period, side, capital, settings, price) ==
    LET leverage == IF side = "LONG" THEN settings.long_leverage ELSE settings.short_leverage
        notional_value == capital * leverage
        amount == (st.cash * leverage) \div price
        fee == (notional_value * FeeNum) \div FeeDen
        pos == [side |-> side, amount |-> amount, entry_price |-> price,
                leverage |-> leverage, entry_date |-> date, ticker |-> ticker]
        trade_log == [date |-> date, ticker |-> ticker, period |-> period, action |-> "OPEN",
                      side |-> side, amount |-> amount, price |-> price,
                      value |-> notional_value, leverage |-> leverage, pnl |-> 0 - fee]
    IN  [st EXCEPT !.cash = @ - fee,
                   !.positions = DictSet(@, [ticker |-> ticker, period |-> period], pos),
                   !.trade_history = Append(@, trade_log)]

simulate_open(st, date, ticker, period, side, capital, settings, price) ==
    LET leverage == IF side = "LONG" THEN settings.long_leverage ELSE settings.short_leverage
        notional_value == capital * leverage
        amount == notional_value \div price
        fee == (notional_value * FeeNum) \div FeeDen
        position_key == KeyOf(ticker, period)
        pos == [side |-> side, amount |-> amount, entry_price |-> price,
                leverage |-> leverage, entry_date |-> date, ticker |-> ticker]
        trade_log == [date |-> date, ticker |-> ticker, period |-> period, action |-> "OPEN",
                      side |-> side, amount |-> amount, price |-> price,
                      value |-> notional_value, leverage |-> leverage, pnl |-> 0 - fee]
    IN  [st EXCEPT !.cash = @ - fee,
                   !.positions = DictSet(@, position_key, pos),
                   !.trade_history = Append(@, trade_log)]

\* a realized PnL that takes every position for a LONG
RealizedPnl_AsLong(pos, price) == (price - pos.entry_price) * pos.amount * pos.leverage

\* a realized PnL that leaves the leverage out
RealizedPnl_Unlevered(pos, price) ==
    IF pos.side = "LONG"
    THEN (price - pos.entry_price) * pos.amount
    ELSE (pos.entry_price - price) * pos.amount

RealizedPnl(pos, price) ==
    IF pos.side = "LONG"
    THEN (price - pos.entry_price) * pos.amount * pos.leverage
    ELSE (pos.entry_price - price) * pos.amount * pos.leverage

\* a close that leaves no trade record
simulate_close_Unrecorded(st, date, position_key, price) ==
    IF position_key \notin DOMAIN st.positions
    THEN [st EXCEPT !.raised = "KeyError"]
    ELSE LET pos == st.positions[position_key]
             fee == (pos.amount * price * pos.leverage * FeeNum) \div FeeDen
         IN  [st EXCEPT !.cash = @ + (RealizedPnl_Unlevered(pos, price) * pos.leverage - fee),
                        !.positions = [x \in (DOMAIN @) \ {position_key} |-> @[x]]]

\* a close that takes a key without a Position for closed already
simulate_close_Tolerant(st, date, position_key, price) ==
    IF position_key \notin DOMAIN st.positions
    THEN st
    ELSE LET pos == st.positions[position_key]
             fee == (pos.amount * price * pos.leverage * FeeNum) \div FeeDen
             pnl == RealizedPnl_Unlevered(pos, price) * pos.leverage
         IN  [st EXCEPT !.cash = @ + (pnl - fee),
                        !.positions = [x \in (DOMAIN @) \ {position_key} |-> @[x]],
                        !.trade_history =
                            Append(@, [date |-> date, ticker |-> pos.ticker,
                                       period |-> [str |-> position_key.period],
                                       action |-> "CLOSE", side |-> pos.side,
                                       amount |-> pos.amount, price |-> price,
                                       value |-> pos.amount * price * pos.leverage,
                                       leverage |-> pos.leverage, pnl |-> pnl - fee])]

\* a close that turns the position to the other side instead of removing it
simulate_close_Reversing(st, date, position_key, price) ==
    IF position_key \notin DOMAIN st.positions
    THEN [st EXCEPT !.raised = "KeyError"]
    ELSE LET pos == st.positions[position_key]
             fee == (pos.amount * price * pos.leverage * FeeNum) \div FeeDen
             pnl == RealizedPnl_Unlevered(pos, price) * pos.leverage
         IN  [st EXCEPT !.cash = @ + (pnl - fee),
                        !.positions[position_key] =
                            [@ EXCEPT !.side = IF pos.side = "LONG" THEN "SHORT" ELSE "LONG",
                                      !.entry_price = price],
                        !.trade_history =
                            Append(@, [date |-> date, ticker |-> pos.ticker,
                                       period |-> [str |-> position_key.period],
                                       action |-> "CLOSE", side |-> pos.side,
                                       amount |-> pos.amount, price |-> price,
                                       value |-> pos.amount * price * pos.leverage,
                                       leverage |-> pos.leverage, pnl |-> pnl - fee])]

\* a close that keeps its fee out of the recorded pnl
simulate_close_FeeUnrecorded(st, date, position_key, price) ==
    IF position_key \notin DOMAIN st.positions
    THEN [st EXCEPT !.raised = "KeyError"]
    ELSE LET pos == st.positions[position_key]
             notional_value == pos.amount * price * pos.leverage
             fee == (notional_value * FeeNum) \div FeeDen
             pnl == RealizedPnl(pos, price)
             trade_log == [date |-> date, ticker |-> pos.ticker,
                           period |-> SplitKey(position_key)[2], action |-> "CLOSE",
                           side |-> pos.side, amount |-> pos.amount, price |-> price,
                           value |-> notional_value, leverage |-> pos.leverage,
                           pnl |-> pnl]
         IN  [st EXCEPT !.cash = @ + (pnl - fee),
                        !.positions = DictPop(@, position_key),
                        !.trade_history = Append(@, trade_log)]

simulate_close(st, date, position_key, price) ==
    IF position_key \notin DOMAIN st.positions
    THEN [st EXCEPT !.raised = "KeyError"]                        \* positions.pop(key)
    ELSE LET pos == st.positions[position_key]
             notional_value == pos.amount * price * pos.leverage
             fee == (notional_value * FeeNum) \div FeeDen
             pnl == RealizedPnl(pos, price)
             trade_log == [date |-> date, ticker |-> pos.ticker,
                           period |-> SplitKey(position_key)[2], action |-> "CLOSE",
                           side |-> pos.side, amount |-> pos.amount, price |-> price,
                           value |-> notional_value, leverage |-> pos.leverage,
                           pnl |-> pnl - fee]
         IN  [st EXCEPT !.cash = @ + (pnl - fee),
                        !.positions = DictPop(@, position_key),
                        !.trade_history = Append(@, trade_log)]

(***************************************************************************)
(* The equity accountant (calculate_portfolio_value,                       *)
(* update_portfolio_history).                                              *)
(***************************************************************************)
RECURSIVE SumOver(_, _)
SumOver(S, f) ==
    IF S = {} THEN 0
    ELSE LET x == CHOOSE y \in S : TRUE IN f[x] + SumOver(S \ {x}, f)

CoinSet(coins) == {coins[i] : i \in 1..Len(coins)}

base_capital_per_coin_of(coins) ==
    IF coins # <<>> THEN strategy_investment \div Len(coins) ELSE 0

DateIn(df, date) == \E i \in 1..Len(df) : df[i].date = date

CloseAt(df, date) == df[CHOOSE i \in 1..Len(df) : df[i].date = date].close

\* an unrealized PnL that takes every position for a LONG
UnrealizedPnl_AsLong(pos, current_price) ==
    (current_price - pos.entry_price) * pos.amount * pos.leverage

UnrealizedPnl(pos, current_price) ==
    IF pos.side = "LONG"
    THEN (current_price - pos.entry_price) * pos.amount * pos.leverage
    ELSE (pos.entry_price - current_price) * pos.amount * pos.leverage

\* the open positions that are marked at current_date (lines 396-401)
MarkedKeys(pos_map, hd, current) ==
    {k \in DOMAIN pos_map :
        /\ SplitKey(k)[1] \in DOMAIN hd
        /\ DateIn(hd[SplitKey(k)[1]], current)}

UnrealizedOf(pos_map, hd, current) ==
    [k \in MarkedKeys(pos_map, hd, current) |->
        UnrealizedPnl(pos_map[k], CloseAt(hd[SplitKey(k)[1]], current))]

TotalEquity(pos_map, trades, hd, current) ==
    strategy_investment
        + SeqSum(Column(trades, "pnl"))
        + SumOver(MarkedKeys(pos_map, hd, current), UnrealizedOf(pos_map, hd, current))

\* per-coin values that leave the open positions out
PerCoinValues_RealizedOnly(coins, pos_map, trades, hd, current) ==
    [ticker \in CoinSet(coins) |->
        base_capital_per_coin_of(coins)
            + SeqSum([i \in 1..Len(trades) |->
                        IF trades[i].ticker = ticker THEN trades[i].pnl ELSE 0])]

PerCoinValues(coins, pos_map, trades, hd, current) ==
    [ticker \in CoinSet(coins) |->
        base_capital_per_coin_of(coins)
            + SeqSum([i \in 1..Len(trades) |->
                        IF trades[i].ticker = ticker THEN trades[i].pnl ELSE 0])
            + SumOver({k \in MarkedKeys(pos_map, hd, current) : SplitKey(k)[1] = ticker},
                      UnrealizedOf(pos_map, hd, current))]

calculate_portfolio_value(coins, pos_map, trades, hd, current) ==
    [total |-> TotalEquity(pos_map, trades, hd, current),
     per_coin |-> PerCoinValues(coins, pos_map, trades, hd, current)]

\* the entries update_portfolio_history appends
\* a snapshot that carries no date of its own
HistoryEntry_Undated(value, st, current) ==
    [date |-> 0, value |-> value.total, cash |-> st.cash,
     positions_count |-> Cardinality(DOMAIN st.positions)]

HistoryEntry(value, st, current) ==
    [date |-> current, value |-> value.total, cash |-> st.cash,
     positions_count |-> Cardinality(DOMAIN st.positions)]

(***************************************************************************)
(* One simulated day of run_backtest (lines 244-340).                      *)
(***************************************************************************)
Emit(st, line) == [st EXCEPT !.log = Append(@, line)]

\* a period step that re-enters on the other side right after a close
process_period_StopAndReverse(st, date, coin, period, data_until_today, capital_per_period, settings) ==
    IF ~EnoughCandles(data_until_today, period) THEN st
    ELSE
    LET ch == BacktestChannel(data_until_today, period)
        st1 == Emit(st, [kind |-> "channel", coin |-> coin, period |-> period,
                          high |-> ch.high, low |-> ch.low, last_close |-> ch.last_close])
        position_key == KeyOf(coin, period)
        st2 == IF NotCurrentPos(st1.positions, position_key) THEN st1
               ELSE IF LongExit(st1.positions[position_key], ch.last_close, ch.midline)
                       \/ ShortExit(st1.positions[position_key], ch.last_close, ch.midline)
               THEN simulate_close(st1, date, position_key, ch.last_close)
               ELSE st1
    IN  IF NotCurrentPos(st2.positions, position_key) /\ st2.raised = "none"
        THEN IF LongEntry(ch.last_close, ch.high)
             THEN simulate_open(st2, date, coin, period, "LONG", capital_per_period,
                                settings, ch.last_close)
             ELSE IF ShortEntry(ch.last_close, ch.low, settings)
             THEN simulate_open(st2, date, coin, period, "SHORT", capital_per_period,
                                settings, ch.last_close)
             ELSE st2
        ELSE st2

\* lines 293-337 for one period of one coin
process_period(st, date, coin, period, data_until_today, capital_per_period, settings) ==
    IF ~EnoughCandles(data_until_today, period) THEN st
    ELSE
    LET ch == BacktestChannel(data_until_today, period)
        st1 == Emit(st, [kind |-> "channel", coin |-> coin, period |-> period,
                          high |-> ch.high, low |-> ch.low, last_close |-> ch.last_close])
        position_key == KeyOf(coin, period)
    IN  IF NotCurrentPos(st1.positions, position_key)
        THEN IF LongEntry(ch.last_close, ch.high)
             THEN simulate_open(st1, date, coin, period, "LONG", capital_per_period,
                                settings, ch.last_close)
             ELSE IF ShortEntry(ch.last_close, ch.low, settings)
             THEN simulate_open(st1, date, coin, period, "SHORT", capital_per_period,
                                settings, ch.last_close)
             ELSE st1
        ELSE LET current_pos == st1.positions[position_key] IN
             IF LongExit(current_pos, ch.last_close, ch.midline)
             THEN simulate_close(st1, date, position_key, ch.last_close)
             ELSE IF ShortExit(current_pos, ch.last_close, ch.midline)
             THEN simulate_close(st1, date, position_key, ch.last_close)
             ELSE st1

\* the loop over the configured periods (line 293), in the order of the list
RECURSIVE process_periods(_, _, _, _, _, _, _, _)
process_periods(st, date, coin, periods, i, data_until_today, capital_per_period, settings) ==
    IF i > Len(periods) \/ st.raised # "none" THEN st
    ELSE process_periods(
             process_period(st, date, coin, periods[i], data_until_today,
                            capital_per_period, settings),
             date, coin, periods, i + 1, data_until_today, capital_per_period, settings)

DataUntil(df, date) == LET upto(r) == r.date <= date IN SelectSeq(df, upto)

\* lines 248-337 for one coin
process_coin(st, coins, periods, hd, date, coin, settings) ==
    IF base_capital_per_coin_of(coins) <= 0 THEN st
    ELSE IF coin \notin DOMAIN hd THEN st
    ELSE
    LET data_until_today == DataUntil(hd[coin], date) IN
    IF data_until_today = <<>> THEN st
    ELSE
    LET sc == VolatilityScaler(data_until_today, volatility_period)
        st1 == Emit(st, [kind |-> "vol", coin |-> coin, n_returns |-> sc.n_returns,
                          required |-> volatility_period - VolTolerance])
    IN  IF sc.status = "insufficient"
        THEN Emit(st1, [kind |-> "insufficient", coin |-> coin])
        ELSE IF sc.status = "zero"
        THEN Emit(st1, [kind |-> "zero_vol", coin |-> coin])
        ELSE LET capital_per_period ==
                     capital_per_period_of(base_capital_per_coin_of(coins), sc.vol)
             IN  process_periods(
                     Emit(st1, [kind |-> "capital", coin |-> coin,
                                 capital_per_period |-> capital_per_period]),
                     date, coin, periods, 1, data_until_today, capital_per_period, settings)

\* the loop over the configured coins (line 247), in the order of the list
RECURSIVE process_coins(_, _, _, _, _, _, _)
process_coins(st, coins, periods, hd, date, i, settings) ==
    IF i > Len(coins) \/ st.raised # "none" THEN st
    ELSE process_coins(process_coin(st, coins, periods, hd, date, coins[i], settings),
                       coins, periods, hd, date, i + 1, settings)

coin_settings == [long_only |-> long_only, long_leverage |-> leverage_long,
                  short_leverage |-> leverage_short]

NoBar == [high |-> 0, low |-> 0, close |-> 0]       \* the day has no candle for the coin

AddRow(df, d, bar) == IF bar = NoBar THEN df ELSE Append(df, Row(d, bar))

\* what the exchange has for a coin on a day: coin "B" has gaps
DayChoices == [A |-> Bars, B |-> {NoBar, FlatBar(2), FlatBar(4), FlatBar(6)}]

\* the candles of a day, for the coins whose data was fetched
DayBars(fetched) ==
    {day \in [Coins -> Bars \cup {NoBar}] :
        \A c \in Coins : IF c \in fetched THEN day[c] \in DayChoices[c] ELSE day[c] = NoBar}

FlatRows(n, p) == [i \in 1..n |-> Row(i - n, FlatBar(p))]

\* the rows fetched for the days before start_date (the warm-up buffer), for the
\* small volatility_period and for the one of the repository's configuration
WarmUp(vol_period) ==
    IF vol_period = VolPeriodSmall
    THEN [A |-> {FlatRows(2, 4), <<Row(-1, FlatBar(2)), Row(0, FlatBar(4))>>},
          B |-> {<<>>, <<Row(-1, FlatBar(4)), Row(0, FlatBar(2))>>}]
    ELSE [A |-> {FlatRows(n, 4) : n \in LongWarmUps}, B |-> {<<>>}]

update_portfolio_history(st, coins, hd, date) ==
    LET value == calculate_portfolio_value(coins, st.positions, st.trade_history, hd, date)
    IN  /\ portfolio_history' = Append(portfolio_history, HistoryEntry(value, st, date))
        /\ portfolio_history_by_coin' =
               [c \in DOMAIN portfolio_history_by_coin |->
                   IF c \in DOMAIN value.per_coin
                   THEN Append(portfolio_history_by_coin[c],
                               [date |-> date, value |-> value.per_coin[c]])
                   ELSE portfolio_history_by_coin[c]]

Ledger == [positions |-> positions, cash |-> cash, trade_history |-> trade_history,
           log |-> <<>>, raised |-> "none"]

\* the loop body of run_backtest for the next day, with that day's candles
TickDay ==
    /\ \E day \in DayBars(DOMAIN historical_data) :
          LET date == current_date + 1 IN
          \E hd \in {[c \in DOMAIN historical_data |->
                        AddRow(historical_data[c], date, day[c])]} :
          \E st \in {process_coins(Ledger, active_coins, donchian_periods, hd, date, 1, coin_settings)} :
              /\ historical_data' = hd
              /\ current_date' = date
              /\ positions' = st.positions
              /\ cash' = st.cash
              /\ trade_history' = st.trade_history
              /\ tick_log' = st.log
              /\ update_portfolio_history(st, active_coins, hd, date)
    /\ UNCHANGED <<mode, active_coins, long_only, last_call, raised, volatility_period>>
    /\ UNCHANGED <<livevars, lockvars, chvars, procvars>>

Tick ==
    /\ mode = "backtest"
    /\ current_date < MaxDays
    /\ TickDay

\* the live bot before its first invocation
LiveIdle ==
    /\ live_pc = "idle"
    /\ live_run = 0
    /\ ticker_idx = 0
    /\ period_idx = 0
    /\ live_capital = 0
    /\ current_positions = <<>>
    /\ positions_file = <<>>
    /\ csv_log = <<>>
    /\ orders = <<>>
    /\ alerts = <<>>
    /\ live_log = [ok |-> FALSE, call |-> "none"]

\* a file that does not exist, and a file holding the tokens of a text
Absent == [exists |-> FALSE, text |-> <<>>]

FileOf(text) == [exists |-> TRUE, text |-> text]

\* main() was not entered, no save is under way, no file was written
ProcIdle ==
    /\ bot = "None"
    /\ save_pc = "idle"
    /\ files = [positions |-> Absent, tmp |-> Absent]

\* no process was started on the lock file, no channel computation was asked for
HarnessIdle ==
    /\ lock_pc = [p \in Procs |-> "idle"]
    /\ lock_handle = [p \in Procs |-> 0]
    /\ lock_path = 0
    /\ inode_lock = [i \in 1..NumProcs |-> 0]
    /\ next_inode = 0
    /\ ch_window = <<>>
    /\ ch_period = 0
    /\ ch_result = [which |-> "none"]
    /\ ProcIdle

\* a backtester as __init__ leaves it (lines 134-141)
FreshBacktester ==
    /\ current_date = 0
    /\ positions = <<>>
    /\ cash = initial_capital
    /\ trade_history = <<>>
    /\ portfolio_history = <<>>
    /\ portfolio_history_by_coin = [c \in CoinSet(active_coins) |-> <<>>]
    /\ tick_log = <<>>
    /\ last_call = [op |-> "none"]
    /\ raised = "none"

\* the state of the backtester when the loop starts: the day-zero snapshot is taken
InitBacktest ==
    /\ mode = "backtest"
    /\ volatility_period \in {VolPeriodSmall, VolPeriodLarge}
    /\ active_coins \in {<<"A">>, <<"A", "B">>}
    /\ volatility_period = VolPeriodLarge => active_coins = <<"A">>
    /\ long_only \in BOOLEAN
    /\ historical_data \in [CoinSet(active_coins) ->
                               UNION {WarmUp(volatility_period)[c] : c \in Coins}]
    /\ \A c \in CoinSet(active_coins) : historical_data[c] \in WarmUp(volatility_period)[c]
    /\ current_date = 0
    /\ positions = <<>>
    /\ cash = initial_capital
    /\ trade_history = <<>>
    /\ portfolio_history =
           <<[date |-> 0, value |-> strategy_investment, cash |-> initial_capital,
              positions_count |-> 0]>>
    /\ portfolio_history_by_coin =
           [c \in CoinSet(active_coins) |->
               <<[date |-> 0, value |-> base_capital_per_coin_of(active_coins)]>>]
    /\ tick_log = <<>>
    /\ last_call = [op |-> "none"]
    /\ raised = "none"
    /\ LiveIdle
    /\ HarnessIdle

(***************************************************************************)
(* The ledger's methods called directly (a harness, a test): any key, any  *)
(* side, whatever the ledger holds.                                        *)
(***************************************************************************)
LedgerKeys == {KeyOf("A", p) : p \in {1, 2}}

LedgerCapitals == {1000, 2000}

LedgerSettings == [long_only |-> FALSE, long_leverage |-> 5, short_leverage |-> 2]

OpenPrices == {50}

ClosePrices == {45, 55}

LedgerUnchanged == UNCHANGED <<mode, active_coins, long_only, historical_data,
                               portfolio_history, portfolio_history_by_coin, tick_log,
                               volatility_period>>

CallSimulateOpen ==
    /\ mode = "ledger"
    /\ current_date < MaxCalls
    /\ \E key \in LedgerKeys, side \in {"LONG", "SHORT"}, capital \in LedgerCapitals,
          price \in OpenPrices :
          \E st \in {simulate_open(Ledger, current_date + 1, key.ticker, key.period, side,
                                   capital, LedgerSettings, price)} :
              /\ last_call' = [op |-> "simulate_open", key |-> key, side |-> side,
                               capital |-> capital, price |-> price,
                               date |-> current_date + 1]
              /\ positions' = st.positions
              /\ cash' = st.cash
              /\ trade_history' = st.trade_history
              /\ raised' = st.raised
    /\ current_date' = current_date + 1
    /\ LedgerUnchanged
    /\ UNCHANGED <<livevars, lockvars, chvars, procvars>>

CallSimulateClose ==
    /\ mode = "ledger"
    /\ current_date < MaxCalls
    /\ \E key \in LedgerKeys, price \in ClosePrices :
          \E st \in {simulate_close(Ledger, current_date + 1, key, price)} :
              /\ last_call' = [op |-> "simulate_close", key |-> key, price |-> price,
                               date |-> current_date + 1]
              /\ positions' = st.positions
              /\ cash' = st.cash
              /\ trade_history' = st.trade_history
              /\ raised' = st.raised
    /\ current_date' = current_date + 1
    /\ LedgerUnchanged
    /\ UNCHANGED <<livevars, lockvars, chvars, procvars>>

InitLedger ==
    /\ mode = "ledger"
    /\ volatility_period = VolPeriodSmall
    /\ active_coins = <<"A">>
    /\ long_only = FALSE
    /\ historical_data = <<>>
    /\ FreshBacktester
    /\ LiveIdle
    /\ HarnessIdle

NextLedger == CallSimulateOpen \/ CallSimulateClose

SpecLedger == InitLedger /\ [][NextLedger]_vars

NextBacktest == Tick

SpecBacktest == InitBacktest /\ [][NextBacktest]_vars

(***************************************************************************)
(* Short backtests over two coins, in which each tick is compared with the *)
(* same tick taken with the configured lists in another order.             *)
(***************************************************************************)
OrderTick ==
    /\ mode = "order"
    /\ current_date < MaxOrderDays
    /\ TickDay

InitOrder ==
    /\ mode = "order"
    /\ volatility_period = VolPeriodSmall
    /\ active_coins = <<"A", "B">>
    /\ long_only \in BOOLEAN
    /\ historical_data \in [CoinSet(active_coins) ->
                               UNION {WarmUp(volatility_period)[c] : c \in Coins}]
    /\ \A c \in CoinSet(active_coins) : historical_data[c] \in WarmUp(volatility_period)[c]
    /\ current_date = 0
    /\ positions = <<>>
    /\ cash = initial_capital
    /\ trade_history = <<>>
    /\ portfolio_history =
           <<[date |-> 0, value |-> strategy_investment, cash |-> initial_capital,
              positions_count |-> 0]>>
    /\ portfolio_history_by_coin =
           [c \in CoinSet(active_coins) |->
               <<[date |-> 0, value |-> base_capital_per_coin_of(active_coins)]>>]
    /\ tick_log = <<>>
    /\ last_call = [op |-> "none"]
    /\ raised = "none"
    /\ LiveIdle
    /\ HarnessIdle

NextOrder == OrderTick

SpecOrder == InitOrder /\ [][NextOrder]_vars

(***************************************************************************)
(* The live bot (Turtule_trading_Stratgy_C.py).  lst is the part of the    *)
(* world open_position and close_position change: the ledger in memory,    *)
(* the positions file, the CSV log, the exchange's orders and the alerts.  *)
(* out is what the collaborators do during one call:                       *)
(*   price  what GetCoinNowPrice returns (0 on failure)                    *)
(*   order  create_market_order raises, or returns an order that is full,  *)
(*          has no price (None) or has no cost key                         *)
(*   save, csv, alert  whether the file write, the CSV append and the      *)
(*          webhook delivery succeed (their failures are swallowed)        *)
(***************************************************************************)
AltRows(n) == [i \in 1..n |-> Row(i - n, FlatBar(IF i % 2 = 0 THEN 4 ELSE 2))]

\* what GetOhlcv returns to calculate_volatility (count = volatility_period + 1)
LiveVolWindows ==
    {<<>>, FlatRows(volatility_period + 1, 4), AltRows(volatility_period + 1),
     AltRows(volatility_period), AltRows(volatility_period - 1)}

\* what GetOhlcv returns to get_donchian_channel (count = period + 2): the candles
\* before the last completed one, the last completed one, and the candle in
\* progress; it may fall short of count
LivePriorBars == {FlatBar(4), WideBar}

LiveRefBars == Bars \cup {[high |-> 6, low |-> 2, close |-> 2],
                          [high |-> 6, low |-> 2, close |-> 6]}

LiveChannelWindows(period) ==
    {[i \in 1..(period + 2) |->
         IF i <= period THEN prior ELSE IF i = period + 1 THEN ref ELSE FlatBar(4)] :
        prior \in LivePriorBars, ref \in LiveRefBars}
    \cup {[i \in 1..(period + 1) |-> FlatBar(4)]}

\* every collaborator outcome of one call; a collaborator the call does not reach
\* is listed once (as succeeding)
Outcomes ==
    {out \in [price : {0, 4}, order : {"raise", "full", "no_price", "no_cost"},
              save : BOOLEAN, csv : BOOLEAN, alert : BOOLEAN] :
        /\ out.price = 0 => out.order = "full"
        /\ (out.price = 0 \/ out.order \in {"raise", "no_price"}) => out.save
        /\ (out.price = 0 \/ out.order # "full") => (out.csv /\ out.alert)}

calculate_volatility(ohlcv) ==
    IF ohlcv = <<>> \/ Len(ohlcv) < volatility_period
    THEN [ok |-> FALSE, vol |-> NaN]
    ELSE [ok |-> TRUE, vol |-> period_90_vol_of(pct_change_dropna(Column(ohlcv, "close")))]

SettingsGet(settings, k, default) == IF k \in DOMAIN settings THEN settings[k] ELSE default

\* save_json_file: the file holds the new ledger, or is left as it was
save_json_file(lst, ok) ==
    IF ok THEN [lst EXCEPT !.positions_file = lst.current_positions] ELSE lst

\* add_csv_log: one row more, or none when the write fails
add_csv_log(lst, log_data, ok) ==
    IF ok THEN [lst EXCEPT !.csv_log = Append(@, log_data)] ELSE lst

SendMessage(lst, msg, ok) == IF ok THEN [lst EXCEPT !.alerts = Append(@, msg)] ELSE lst

open_position(lst, now, ticker, period, side, capital, settings, out) ==
    LET leverage == SettingsGet(settings,
                        IF side = "LONG" THEN "long_leverage" ELSE "short_leverage", 1)
        current_price == out.price
    IN
    IF current_price <= 0 THEN lst
    ELSE
    LET notional_value == capital * leverage
        amount == notional_value \div current_price
        order == [amount |-> amount, price |-> current_price, cost |-> notional_value]
        placed == [lst EXCEPT !.orders =
                      Append(@, [ticker |-> ticker, side |-> IF side = "LONG" THEN "buy" ELSE "sell",
                                 positionSide |-> side, amount |-> amount])]
        updated == [placed EXCEPT !.current_positions =
                       DictSet(@, KeyOf(ticker, period),
                               [side |-> side, amount |-> order.amount,
                                entry_price |-> order.price, leverage |-> leverage,
                                entry_time |-> now])]
        saved == save_json_file(updated, out.save)
        log_data == [ticker |-> ticker, period |-> period, action |-> "OPEN", side |-> side,
                     amount |-> order.amount, price |-> order.price, value |-> order.cost,
                     leverage |-> leverage, pnl |-> 0]
    IN  IF out.order = "raise" THEN lst
        ELSE IF out.order = "no_price" THEN placed            \* float(None)
        ELSE IF out.order = "no_cost" THEN saved              \* order['cost']
        ELSE SendMessage(add_csv_log(saved, log_data, out.csv),
                         [action |-> "OPEN", ticker |-> ticker, period |-> period],
                         out.alert)

close_position(lst, ticker, period, position_data, out) ==
    LET side == position_data.side
        amount == position_data.amount
        entry_price == position_data.entry_price
        leverage == position_data.leverage
        current_price == out.price
    IN
    IF current_price <= 0 THEN lst
    ELSE
    LET order == [amount |-> amount, price |-> current_price,
                  cost |-> amount * current_price]
        placed == [lst EXCEPT !.orders =
                      Append(@, [ticker |-> ticker, side |-> IF side = "LONG" THEN "sell" ELSE "buy",
                                 positionSide |-> side, amount |-> amount])]
        pnl == IF side = "LONG"
               THEN (order.price - entry_price) * amount * leverage
               ELSE (entry_price - order.price) * amount * leverage
        updated == [placed EXCEPT !.current_positions = DictPop(@, KeyOf(ticker, period))]
        saved == save_json_file(updated, out.save)
        log_data == [ticker |-> ticker, period |-> period, action |-> "CLOSE", side |-> side,
                     amount |-> order.amount, price |-> order.price, value |-> order.cost,
                     leverage |-> leverage, pnl |-> pnl]
    IN  IF out.order = "raise" THEN lst
        ELSE IF out.order = "no_price" THEN placed            \* float(None)
        ELSE IF out.order = "no_cost" THEN saved              \* order['cost']
        ELSE SendMessage(add_csv_log(saved, log_data, out.csv),
                         [action |-> "CLOSE", ticker |-> ticker, period |-> period],
                         out.alert)

LiveWorld == [current_positions |-> current_positions, positions_file |-> positions_file,
              csv_log |-> csv_log, orders |-> orders, alerts |-> alerts]

SetLiveWorld(lst) ==
    /\ current_positions' = lst.current_positions
    /\ positions_file' = lst.positions_file
    /\ csv_log' = lst.csv_log
    /\ orders' = lst.orders
    /\ alerts' = lst.alerts

\* signal detection of run() (lines 309-312)
long_signal(ch) == ch.last_close > ch.high

short_signal(ch, settings) ==
    ch.last_close < ch.low /\ ~SettingsGet(settings, "long_only", FALSE)

long_exit_signal(ch) == ch.last_close < ch.midline

short_exit_signal(ch) == ch.last_close > ch.midline

\* which method the loop body of run() calls for a slot (lines 315-330)
LiveDecision(ch, pos_map, position_key, settings) ==
    IF NotCurrentPos(pos_map, position_key)
    THEN IF long_signal(ch) THEN [call |-> "open_position", side |-> "LONG"]
         ELSE IF short_signal(ch, settings) THEN [call |-> "open_position", side |-> "SHORT"]
         ELSE [call |-> "none", side |-> "none"]
    ELSE IF pos_map[position_key].side = "LONG" /\ long_exit_signal(ch)
         THEN [call |-> "close_position", side |-> "LONG"]
         ELSE IF pos_map[position_key].side = "SHORT" /\ short_exit_signal(ch)
         THEN [call |-> "close_position", side |-> "SHORT"]
         ELSE [call |-> "none", side |-> "none"]

BacktestUnchanged == UNCHANGED <<btvars, lockvars, chvars, procvars>>

\* main(): the bot is built (the positions file is loaded) and run() starts
LiveStart ==
    /\ mode = "live"
    /\ live_pc = "idle"
    /\ live_run < MaxRuns
    /\ live_run' = live_run + 1
    /\ current_positions' = positions_file                      \* load_json_file
    /\ \E total_balance \in {0, initial_capital} :
          IF total_balance = 0
          THEN live_pc' = "finish" /\ ticker_idx' = 0
          ELSE live_pc' = "ticker" /\ ticker_idx' = 1
    /\ period_idx' = 0
    /\ live_capital' = 0
    /\ live_log' = [ok |-> FALSE, call |-> "none"]
    /\ UNCHANGED <<mode, positions_file, csv_log, orders, alerts>>
    /\ BacktestUnchanged

\* run(): the head of the loop over active_coins (lines 283-297)
TickerBody ==
    /\ live_pc = "ticker"
    /\ IF ticker_idx > Len(active_coins)
       THEN /\ live_pc' = "finish"
            /\ UNCHANGED <<ticker_idx, period_idx, live_capital, live_log>>
       ELSE \E ohlcv \in LiveVolWindows :
               LET volatility == calculate_volatility(ohlcv) IN
               /\ live_log' = [ok |-> FALSE, call |-> "calculate_volatility",
                               ticker |-> active_coins[ticker_idx], ohlcv |-> ohlcv,
                               returned |-> volatility.ok, vol |-> volatility.vol]
               /\ IF ~volatility.ok \/ volatility.vol = 0
                  THEN /\ ticker_idx' = ticker_idx + 1
                       /\ UNCHANGED <<live_pc, period_idx, live_capital>>
                  ELSE /\ live_capital' =
                              capital_per_period_of(base_capital_per_coin_of(active_coins),
                                                    volatility.vol)
                       /\ live_pc' = "slot"
                       /\ period_idx' = 1
                       /\ UNCHANGED ticker_idx
    /\ UNCHANGED <<mode, live_run, current_positions, positions_file, csv_log, orders,
                   alerts>>
    /\ BacktestUnchanged

\* run(): the body of the loop over donchian_periods for one slot (lines 299-332)
SlotBody ==
    /\ live_pc = "slot"
    /\ LET ticker == active_coins[ticker_idx]
           period == donchian_periods[period_idx]
           position_key == KeyOf(ticker, period)
       IN  \E ohlcv \in LiveChannelWindows(period) :
           \E ch \in {get_donchian_channel(ohlcv, period)} :
              IF ~ch.ok
              THEN /\ live_log' = [ok |-> FALSE, call |-> "none"]
                   /\ UNCHANGED <<current_positions, positions_file, csv_log, orders, alerts>>
              ELSE \E d \in {LiveDecision(ch, current_positions, position_key, coin_settings)} :
                   /\ live_log' = [ok |-> TRUE, ticker |-> ticker, period |-> period,
                                   ohlcv |-> ohlcv, high |-> ch.high, low |-> ch.low, midline |-> ch.midline,
                                   last_close |-> ch.last_close, call |-> d.call,
                                   side |-> d.side]
                   /\ IF d.call = "open_position"
                      THEN \E out \in Outcomes :
                              SetLiveWorld(open_position(LiveWorld, live_run, ticker, period,
                                                         d.side, live_capital, coin_settings,
                                                         out))
                      ELSE IF d.call = "close_position"
                      THEN \E out \in Outcomes :
                              SetLiveWorld(close_position(LiveWorld, ticker, period,
                                                          current_positions[position_key],
                                                          out))
                      ELSE UNCHANGED <<current_positions, positions_file, csv_log, orders,
                                       alerts>>
    /\ IF period_idx < Len(donchian_periods)
       THEN period_idx' = period_idx + 1 /\ UNCHANGED <<live_pc, ticker_idx>>
       ELSE live_pc' = "ticker" /\ ticker_idx' = ticker_idx + 1 /\ period_idx' = 0
    /\ UNCHANGED <<mode, live_run, live_capital>>
    /\ BacktestUnchanged

LiveTicker == mode = "live" /\ TickerBody

LiveSlot == mode = "live" /\ SlotBody

\* main(): run() returned, the process ends and its memory is gone
LiveFinish ==
    /\ mode = "live"
    /\ live_pc = "finish"
    /\ live_pc' = "idle"
    /\ current_positions' = <<>>
    /\ ticker_idx' = 0
    /\ period_idx' = 0
    /\ live_capital' = 0
    /\ UNCHANGED <<mode, live_run, positions_file, csv_log, orders, alerts, live_log>>
    /\ BacktestUnchanged

\* a position an earlier invocation left in the positions file
SeedPosition(side) ==
    [side |-> side, amount |-> 600, entry_price |-> 4,
     leverage |-> IF side = "LONG" THEN leverage_long ELSE leverage_short,
     entry_time |-> 0]

\* the positions files an invocation may find: every slot FLAT, LONG or SHORT
SeedLedgers ==
    {ledger \in UNION {[keys -> {SeedPosition("LONG"), SeedPosition("SHORT")}] :
                          keys \in SUBSET {KeyOf("A", p) : p \in PeriodSet}} : TRUE}

InitLive ==
    /\ mode = "live"
    /\ volatility_period = VolPeriodSmall
    /\ active_coins = <<"A">>
    /\ long_only \in BOOLEAN
    /\ historical_data = <<>>
    /\ FreshBacktester
    /\ live_pc = "idle"
    /\ live_run = 0
    /\ ticker_idx = 0
    /\ period_idx = 0
    /\ live_capital = 0
    /\ current_positions = <<>>
    /\ positions_file \in SeedLedgers
    /\ csv_log = <<>>
    /\ orders = <<>>
    /\ alerts = <<>>
    /\ live_log = [ok |-> FALSE, call |-> "none"]
    /\ HarnessIdle

NextLive == LiveStart \/ LiveTicker \/ LiveSlot \/ LiveFinish

SpecLive == InitLive /\ [][NextLive]_vars

(***************************************************************************)
(* Direct calls of open_position and close_position on a bot whose ledger  *)
(* was loaded from the positions file.                                     *)
(***************************************************************************)
LiveCapitals == {CapUnit}

LiveUnchanged ==
    UNCHANGED <<mode, live_pc, ticker_idx, period_idx, live_capital>>

CallOpenPosition ==
    /\ mode = "live_calls"
    /\ live_run < MaxLiveCalls
    /\ live_run' = live_run + 1
    /\ \E period \in PeriodSet, side \in {"LONG", "SHORT"}, capital \in LiveCapitals,
          out \in Outcomes :
          /\ SetLiveWorld(open_position(LiveWorld, live_run + 1, "A", period, side,
                                        capital, coin_settings, out))
          /\ live_log' = [ok |-> TRUE, call |-> "open_position", ticker |-> "A",
                          period |-> period, side |-> side, out |-> out]
    /\ LiveUnchanged
    /\ BacktestUnchanged

CallClosePosition ==
    /\ mode = "live_calls"
    /\ live_run < MaxLiveCalls
    /\ live_run' = live_run + 1
    /\ \E position_key \in DOMAIN current_positions, out \in Outcomes :
          /\ SetLiveWorld(close_position(LiveWorld, position_key.ticker, position_key.period,
                                         current_positions[position_key], out))
          /\ live_log' = [ok |-> TRUE, call |-> "close_position",
                          ticker |-> position_key.ticker, period |-> position_key.period,
                          side |-> current_positions[position_key].side, out |-> out]
    /\ LiveUnchanged
    /\ BacktestUnchanged

InitLiveCalls ==
    /\ mode = "live_calls"
    /\ volatility_period = VolPeriodSmall
    /\ active_coins = <<"A">>
    /\ long_only = FALSE
    /\ historical_data = <<>>
    /\ FreshBacktester
    /\ live_pc = "idle"
    /\ live_run = 0
    /\ ticker_idx = 0
    /\ period_idx = 0
    /\ live_capital = 0
    /\ positions_file \in SeedLedgers
    /\ current_positions = positions_file                       \* load_json_file
    /\ csv_log = <<>>
    /\ orders = <<>>
    /\ alerts = <<>>
    /\ live_log = [ok |-> FALSE, call |-> "none"]
    /\ HarnessIdle

NextLiveCalls == CallOpenPosition \/ CallClosePosition

SpecLiveCalls == InitLiveCalls /\ [][NextLiveCalls]_vars

(***************************************************************************)
(* GetCoinNowPrice (FINAL_myBinance.py).  responses holds what             *)
(* binance.fetch_ticker does on each attempt: it raises, returns something *)
(* that is no dict, or returns a dict whose entries are absent, None, a    *)
(* text float() rejects, or a number.                                      *)
(***************************************************************************)
max_retries == 3

price_keys == <<"last", "close", "price">>

FieldAbsent == [kind |-> "absent", num |-> 0]

FieldNone == [kind |-> "none", num |-> 0]

FieldText == [kind |-> "text", num |-> 0]

FieldNum(n) == [kind |-> "num", num |-> n]

FieldValues == {FieldAbsent, FieldNone, FieldText} \cup {FieldNum(n) : n \in {-2, 0, 4, 6}}

TickerInfos == [{"last", "close", "price"} -> FieldValues]

Raises == [kind |-> "raise"]

NotADict == [kind |-> "other"]

DictOf(info) == [kind |-> "dict", coin_info |-> info]

\* the attempts of one lookup; the attempts after the first that does not raise
\* are never made
TickerResponses ==
    {<<r>> : r \in {DictOf(info) : info \in TickerInfos} \cup {NotADict}}
    \cup {<<Raises, r>> :
             r \in {NotADict, DictOf([k \in {"last", "close", "price"} |-> FieldNum(4)])}}
    \cup {<<Raises, Raises, r>> :
             r \in {Raises, NotADict,
                    DictOf([k \in {"last", "close", "price"} |-> FieldNum(6)])}}

\* a scan of the keys that returns the first number it finds, whatever its sign
FirstPrice_Unchecked(coin_info, i) ==
    LET nums == {j \in i..Len(price_keys) : coin_info[price_keys[j]].kind = "num"}
    IN  IF nums = {} THEN 0
        ELSE coin_info[price_keys[CHOOSE j \in nums : \A x \in nums : j <= x]].num

\* the loop over price_keys from the i-th key on (lines 277-287)
RECURSIVE FirstPrice(_, _)
FirstPrice(coin_info, i) ==
    IF i > Len(price_keys) THEN 0                                  \* return 0.0
    ELSE LET v == coin_info[price_keys[i]] IN
         IF v.kind \in {"absent", "none"} THEN FirstPrice(coin_info, i + 1)
         ELSE IF v.kind = "text" THEN FirstPrice(coin_info, i + 1)  \* ValueError
         ELSE IF v.num > 0 THEN v.num
         ELSE FirstPrice(coin_info, i + 1)

RECURSIVE GetCoinNowPriceFrom(_, _)
GetCoinNowPriceFrom(responses, attempt) ==
    LET r == responses[attempt] IN
    IF r.kind = "raise"
    THEN IF attempt < max_retries THEN GetCoinNowPriceFrom(responses, attempt + 1) ELSE 0
    ELSE IF r.kind = "dict" THEN FirstPrice(r.coin_info, 1)
    ELSE 0

GetCoinNowPrice(responses) == GetCoinNowPriceFrom(responses, 1)

CallGetCoinNowPrice ==
    /\ mode = "price"
    /\ live_run < MaxLiveCalls
    /\ live_run' = live_run + 1
    /\ \E responses \in TickerResponses :
          live_log' = [ok |-> TRUE, call |-> "GetCoinNowPrice", responses |-> responses,
                       returned |-> GetCoinNowPrice(responses)]
    /\ UNCHANGED <<current_positions, positions_file, csv_log, orders, alerts>>
    /\ LiveUnchanged
    /\ BacktestUnchanged

InitPrice ==
    /\ mode = "price"
    /\ volatility_period = VolPeriodSmall
    /\ active_coins = <<"A">>
    /\ long_only = FALSE
    /\ historical_data = <<>>
    /\ FreshBacktester
    /\ LiveIdle
    /\ HarnessIdle

NextPrice == CallGetCoinNowPrice

\* the current-price lookup, and the two methods that use its result
SpecLivePrice == (InitLiveCalls \/ InitPrice) /\ [][NextLiveCalls \/ NextPrice]_vars

(***************************************************************************)
(* The positions file (save_json_file, load_json_file).  A text is the     *)
(* sequence of tokens json.dump writes: the opening brace, one entry per   *)
(* key, the closing brace.  A save is taken step by step, so that it can   *)
(* fail or the process can die between any two steps.                      *)
(***************************************************************************)
MaxSaves == 2                \* save_json_file calls, each followed by a new invocation

\* json.dump of a Position: str to string, float to a number with a decimal point,
\* int to a number without one (entry_time is the text isoformat() returned)
dump_position(pos) ==
    [side |-> [string |-> pos.side],
     amount |-> [number |-> pos.amount, point |-> TRUE],
     entry_price |-> [number |-> pos.entry_price, point |-> TRUE],
     leverage |-> [number |-> pos.leverage, point |-> FALSE],
     entry_time |-> [string |-> pos.entry_time]]

\* a load that takes every side for a LONG
load_position_AsLong(obj) ==
    [side |-> "LONG", amount |-> obj.amount.number,
     entry_price |-> obj.entry_price.number, leverage |-> obj.leverage.number,
     entry_time |-> obj.entry_time.string]

\* json.load of a Position object: string to str, number to float or int
load_position(obj) ==
    [side |-> obj.side.string, amount |-> obj.amount.number,
     entry_price |-> obj.entry_price.number, leverage |-> obj.leverage.number,
     entry_time |-> obj.entry_time.string]

\* the keys of a ledger in the order the dict holds them
RECURSIVE KeysInOrder(_)
KeysInOrder(keys) ==
    IF keys = {} THEN <<>>
    ELSE LET k == CHOOSE x \in keys : \A y \in keys : x.period <= y.period
         IN  <<k>> \o KeysInOrder(keys \ {k})

json_dump(data) ==
    LET keys == KeysInOrder(DOMAIN data) IN
    <<[tok |-> "{"]>>
    \o [i \in 1..Len(keys) |->
           [tok |-> "entry", key |-> keys[i], value |-> dump_position(data[keys[i]])]]
    \o <<[tok |-> "}"]>>

WellFormed(text) ==
    /\ Len(text) >= 2
    /\ text[1].tok = "{"
    /\ text[Len(text)].tok = "}"
    /\ \A i \in 2..(Len(text) - 1) : text[i].tok = "entry"

json_load(text) ==
    [k \in {text[i].key : i \in 2..(Len(text) - 1)} |->
        load_position(text[CHOOSE i \in 2..(Len(text) - 1) : text[i].key = k].value)]

\* load_json_file: {} when the file is missing or does not parse
load_json_file(file) ==
    IF ~file.exists THEN <<>>                          \* FileNotFoundError
    ELSE IF ~WellFormed(file.text) THEN <<>>           \* json.JSONDecodeError
    ELSE json_load(file.text)

\* a save that writes into the file itself
temp_filepath_InPlace(filepath) == filepath

temp_filepath(filepath) == [positions |-> "tmp"][filepath]       \* f"{filepath}.tmp"

\* os.replace: one rename, or nothing when both paths name the same file
os_replace(fs, src, dst) ==
    IF src = dst THEN fs ELSE [fs EXCEPT ![dst] = fs[src], ![src] = Absent]

\* the ledgers an open_position or a close_position makes of a ledger
LedgerUpdates(ledger) ==
    {DictPop(ledger, k) : k \in DOMAIN ledger}
    \cup {DictSet(ledger, k, SeedPosition(side)) :
             k \in {KeyOf("A", p) : p \in PeriodSet} \ DOMAIN ledger,
             side \in {"LONG", "SHORT"}}

SaveUnchanged ==
    UNCHANGED <<mode, btvars, lockvars, chvars, bot, live_pc, ticker_idx, period_idx,
                live_capital, csv_log, orders, alerts>>

\* the ledger was changed in memory; open(temp_filepath, 'w') creates or truncates
SaveOpen ==
    /\ mode = "save"
    /\ save_pc = "idle"
    /\ live_run < MaxSaves
    /\ \E data \in LedgerUpdates(current_positions), ok \in BOOLEAN :
          /\ current_positions' = data
          /\ IF ok
             THEN /\ files' = [files EXCEPT ![temp_filepath("positions")] = FileOf(<<>>)]
                  /\ save_pc' = "writing"
             ELSE /\ files' = files
                  /\ save_pc' = "failed"
    /\ UNCHANGED <<live_run, positions_file, live_log>>
    /\ SaveUnchanged

\* json.dump writes the next token, or raises
SaveDump ==
    /\ mode = "save"
    /\ save_pc = "writing"
    /\ LET tmp == temp_filepath("positions")
           text == json_dump(current_positions)
           written == Len(files[tmp].text)
       IN  \/ /\ written < Len(text)
              /\ files' = [files EXCEPT ![tmp] = FileOf(Append(@.text, text[written + 1]))]
              /\ save_pc' = "writing"
           \/ /\ written = Len(text)                   \* the with block closes the file
              /\ files' = files
              /\ save_pc' = "closed"
           \/ /\ files' = files
              /\ save_pc' = "failed"
    /\ UNCHANGED <<live_run, current_positions, positions_file, live_log>>
    /\ SaveUnchanged

\* os.replace(temp_filepath, filepath), or it raises
SaveReplace ==
    /\ mode = "save"
    /\ save_pc = "closed"
    /\ \/ /\ files' = os_replace(files, temp_filepath("positions"), "positions")
          /\ save_pc' = "done"
       \/ /\ files' = files
          /\ save_pc' = "failed"
    /\ UNCHANGED <<live_run, current_positions, positions_file, live_log>>
    /\ SaveUnchanged

\* the process dies in the middle of the save
SaveCrash ==
    /\ mode = "save"
    /\ save_pc \in {"writing", "closed"}
    /\ save_pc' = "crashed"
    /\ UNCHANGED <<live_run, current_positions, positions_file, live_log, files>>
    /\ SaveUnchanged

\* the next invocation: __init__ loads the positions file (line 103)
SaveReload ==
    /\ mode = "save"
    /\ save_pc \in {"done", "failed", "crashed"}
    /\ live_run' = live_run + 1
    /\ current_positions' = load_json_file(files["positions"])
    /\ positions_file' = load_json_file(files["positions"])
    /\ live_log' = [ok |-> TRUE, call |-> "load_json_file", after |-> save_pc,
                    saved |-> current_positions]
    /\ save_pc' = "idle"
    /\ UNCHANGED files
    /\ SaveUnchanged

\* an invocation whose ledger was loaded from the file an earlier one left
InitSave ==
    /\ mode = "save"
    /\ volatility_period = VolPeriodSmall
    /\ active_coins = <<"A">>
    /\ long_only = FALSE
    /\ historical_data = <<>>
    /\ FreshBacktester
    /\ live_pc = "idle"
    /\ live_run = 0
    /\ ticker_idx = 0
    /\ period_idx = 0
    /\ live_capital = 0
    /\ positions_file \in SeedLedgers
    /\ current_positions = positions_file
    /\ csv_log = <<>>
    /\ orders = <<>>
    /\ alerts = <<>>
    /\ live_log = [ok |-> FALSE, call |-> "none"]
    /\ lock_pc = [p \in Procs |-> "idle"]
    /\ lock_handle = [p \in Procs |-> 0]
    /\ lock_path = 0
    /\ inode_lock = [i \in 1..NumProcs |-> 0]
    /\ next_inode = 0
    /\ ch_window = <<>>
    /\ ch_period = 0
    /\ ch_result = [which |-> "none"]
    /\ bot = "None"
    /\ save_pc = "idle"
    /\ files \in {[positions |-> f, tmp |-> Absent] :
                     f \in {FileOf(json_dump(positions_file))}
                           \cup (IF positions_file = <<>> THEN {Absent} ELSE {})}

NextSave == SaveOpen \/ SaveDump \/ SaveReplace \/ SaveCrash \/ SaveReload

SpecSave == InitSave /\ [][NextSave]_vars

(***************************************************************************)
(* The lock file (acquire_lock, release_lock).  Each process is one        *)
(* invocation of main(); every step is one system call, so the steps of    *)
(* different processes interleave.  flock locks the inode a handle is open *)
(* on; the path names an inode until os.remove unlinks it.                 *)
(***************************************************************************)
LockUnchanged == UNCHANGED <<mode, btvars, livevars, chvars, procvars>>

\* open(self.json_files['lock'], 'w'): the file is created when the path names none
AcquireOpen(p) ==
    /\ mode = "lock"
    /\ lock_pc[p] = "idle"
    /\ IF lock_path = 0
       THEN /\ next_inode < NumProcs
            /\ next_inode' = next_inode + 1
            /\ lock_path' = next_inode + 1
            /\ lock_handle' = [lock_handle EXCEPT ![p] = next_inode + 1]
       ELSE /\ lock_handle' = [lock_handle EXCEPT ![p] = lock_path]
            /\ UNCHANGED <<lock_path, next_inode>>
    /\ lock_pc' = [lock_pc EXCEPT ![p] = "opened"]
    /\ UNCHANGED inode_lock
    /\ LockUnchanged

\* fcntl.flock(LOCK_EX | LOCK_NB): the lock is taken, or the handle is closed and
\* the process exits
AcquireFlock(p) ==
    /\ mode = "lock"
    /\ lock_pc[p] = "opened"
    /\ IF inode_lock[lock_handle[p]] = 0
       THEN /\ inode_lock' = [inode_lock EXCEPT ![lock_handle[p]] = p]
            /\ lock_pc' = [lock_pc EXCEPT ![p] = "running"]
            /\ UNCHANGED lock_handle
       ELSE /\ lock_handle' = [lock_handle EXCEPT ![p] = 0]
            /\ lock_pc' = [lock_pc EXCEPT ![p] = "exited"]
            /\ UNCHANGED inode_lock
    /\ UNCHANGED <<lock_path, next_inode>>
    /\ LockUnchanged

\* release_lock: fcntl.flock(LOCK_UN)
ReleaseUnlock(p) ==
    /\ mode = "lock"
    /\ lock_pc[p] = "running"
    /\ inode_lock' = [inode_lock EXCEPT ![lock_handle[p]] = 0]
    /\ lock_pc' = [lock_pc EXCEPT ![p] = "unlocked"]
    /\ UNCHANGED <<lock_handle, lock_path, next_inode>>
    /\ LockUnchanged

\* release_lock: self.lock_file_handle.close()
ReleaseClose(p) ==
    /\ mode = "lock"
    /\ lock_pc[p] = "unlocked"
    /\ lock_handle' = [lock_handle EXCEPT ![p] = 0]
    /\ lock_pc' = [lock_pc EXCEPT ![p] = "closed"]
    /\ UNCHANGED <<lock_path, inode_lock, next_inode>>
    /\ LockUnchanged

\* release_lock: os.remove(self.json_files['lock']) unlinks whatever the path names;
\* when it names nothing the error is caught
ReleaseRemove(p) ==
    /\ mode = "lock"
    /\ lock_pc[p] = "closed"
    /\ lock_path' = 0
    /\ lock_pc' = [lock_pc EXCEPT ![p] = "done"]
    /\ UNCHANGED <<lock_handle, inode_lock, next_inode>>
    /\ LockUnchanged

InitLock ==
    /\ mode = "lock"
    /\ volatility_period = VolPeriodSmall
    /\ active_coins = <<"A">>
    /\ long_only = FALSE
    /\ historical_data = <<>>
    /\ FreshBacktester
    /\ LiveIdle
    /\ HarnessIdle

NextLock ==
    \E p \in Procs :
        \/ AcquireOpen(p)
        \/ AcquireFlock(p)
        \/ ReleaseUnlock(p)
        \/ ReleaseClose(p)
        \/ ReleaseRemove(p)

SpecLock == InitLock /\ [][NextLock]_vars

(***************************************************************************)
(* One invocation of main() (lines 429-440): the bot is built, run() goes  *)
(* through its slots, an exception may escape either of them, and the      *)
(* process ends.  The invocation is process 1; another instance, process   *)
(* 2, may hold the lock.  The lock's system calls are taken together here. *)
(***************************************************************************)
Self == 1

LockState == [lock_pc |-> lock_pc, lock_handle |-> lock_handle, lock_path |-> lock_path,
              inode_lock |-> inode_lock, next_inode |-> next_inode]

SetLockState(ls) ==
    /\ lock_pc' = ls.lock_pc
    /\ lock_handle' = ls.lock_handle
    /\ lock_path' = ls.lock_path
    /\ inode_lock' = ls.inode_lock
    /\ next_inode' = ls.next_inode

\* acquire_lock: open(..., 'w'), then flock; on failure the handle is closed
acquire_lock(ls, p) ==
    LET opened == IF ls.lock_path = 0
                  THEN [ls EXCEPT !.next_inode = @ + 1, !.lock_path = ls.next_inode + 1,
                                  !.lock_handle[p] = ls.next_inode + 1]
                  ELSE [ls EXCEPT !.lock_handle[p] = ls.lock_path]
        inode == opened.lock_handle[p]
    IN  IF opened.inode_lock[inode] = 0
        THEN [opened EXCEPT !.inode_lock[inode] = p, !.lock_pc[p] = "running"]
        ELSE [opened EXCEPT !.lock_handle[p] = 0, !.lock_pc[p] = "exited"]

\* release_lock: unlock, close, remove; on a handle that is missing or closed the
\* first call raises and the error is printed
release_lock(ls, p) ==
    IF ls.lock_handle[p] = 0 THEN ls
    ELSE [ls EXCEPT !.inode_lock[ls.lock_handle[p]] = IF @ = p THEN 0 ELSE @,
                    !.lock_handle[p] = 0,
                    !.lock_path = 0,
                    !.lock_pc[p] = "done"]

\* an interpreter that never runs the destructor
del_object_Never(ls, p) == ls

\* __del__ (lines 425-427), run when the last reference to the object goes
del_object(ls, p) == release_lock(ls, p)

MainUnchanged == UNCHANGED <<mode, btvars, chvars, save_pc, files, live_run>>

\* bot = TurtleTradingBot(): the keys are missing, the lock is busy (sys.exit), the
\* configuration does not load, or the bot is built and run() reads the balance
MainConstruct ==
    /\ mode = "main"
    /\ live_pc = "idle"
    /\ \E outcome \in {"no_keys", "no_config", "built"} :
          IF outcome = "no_keys"
          THEN /\ live_pc' = "except"
               /\ UNCHANGED <<lockvars, bot, current_positions, ticker_idx>>
          ELSE \E ls \in {acquire_lock(LockState, Self)} :
               /\ SetLockState(ls)
               /\ IF ls.lock_pc[Self] = "exited"
                  THEN /\ outcome = "built"
                       /\ live_pc' = "finally"                   \* SystemExit
                       /\ UNCHANGED <<bot, current_positions, ticker_idx>>
                  ELSE IF outcome = "no_config"
                  THEN /\ live_pc' = "except"
                       /\ UNCHANGED <<bot, current_positions, ticker_idx>>
                  ELSE /\ bot' = "object"
                       /\ current_positions' = positions_file
                       /\ \E total_balance \in {0, initial_capital} :
                             IF total_balance = 0
                             THEN live_pc' = "finish" /\ ticker_idx' = 0
                             ELSE live_pc' = "ticker" /\ ticker_idx' = 1
    /\ UNCHANGED <<period_idx, live_capital, positions_file, csv_log, orders, alerts,
                   live_log>>
    /\ MainUnchanged

MainTicker == mode = "main" /\ TickerBody

MainSlot == mode = "main" /\ SlotBody

\* an exception escapes run() before the next loop body
MainRaise ==
    /\ mode = "main"
    /\ live_pc \in {"ticker", "slot"}
    /\ live_pc' = "except"
    /\ UNCHANGED <<lockvars, bot, ticker_idx, period_idx, live_capital, current_positions,
                   positions_file, csv_log, orders, alerts, live_log>>
    /\ MainUnchanged

\* except Exception: the crash is sent to the webhook, which may not deliver it
MainExcept ==
    /\ mode = "main"
    /\ live_pc = "except"
    /\ live_pc' = "finally"
    /\ \E delivered \in BOOLEAN :
          /\ alerts' = IF delivered THEN Append(alerts, [action |-> "CRASH"]) ELSE alerts
          /\ live_log' = [ok |-> FALSE, call |-> "SendMessage", msg |-> "BOT CRASHED",
                          delivered |-> delivered]
    /\ UNCHANGED <<lockvars, bot, ticker_idx, period_idx, live_capital, current_positions,
                   positions_file, csv_log, orders>>
    /\ MainUnchanged

\* finally: if bot: bot.release_lock()
MainFinally ==
    /\ mode = "main"
    /\ live_pc \in {"finish", "finally"}
    /\ live_pc' = "del"
    /\ IF bot # "None"
       THEN SetLockState(release_lock(LockState, Self))
       ELSE UNCHANGED lockvars
    /\ UNCHANGED <<bot, ticker_idx, period_idx, live_capital, current_positions,
                   positions_file, csv_log, orders, alerts, live_log>>
    /\ MainUnchanged

\* the object is freed (__del__), then the process ends and its memory is gone
MainEnd ==
    /\ mode = "main"
    /\ live_pc = "del"
    /\ live_pc' = "ended"
    /\ SetLockState(del_object(LockState, Self))
    /\ current_positions' = <<>>
    /\ UNCHANGED <<bot, ticker_idx, period_idx, live_capital, positions_file, csv_log,
                   orders, alerts, live_log>>
    /\ MainUnchanged

\* the lock file is missing, left behind unlocked, or held by another instance
InitMain ==
    /\ mode = "main"
    /\ volatility_period = VolPeriodSmall
    /\ active_coins = <<"A">>
    /\ long_only \in BOOLEAN
    /\ historical_data = <<>>
    /\ FreshBacktester
    /\ live_pc = "idle"
    /\ live_run = 0
    /\ ticker_idx = 0
    /\ period_idx = 0
    /\ live_capital = 0
    /\ current_positions = <<>>
    /\ positions_file \in SeedLedgers
    /\ csv_log = <<>>
    /\ orders = <<>>
    /\ alerts = <<>>
    /\ live_log = [ok |-> FALSE, call |-> "none"]
    /\ lock_pc \in {[p \in Procs |-> "idle"],
                    [p \in Procs |-> IF p = 2 THEN "running" ELSE "idle"]}
    /\ lock_path \in {0, 1}
    /\ lock_pc[2] = "running" => lock_path = 1
    /\ next_inode = lock_path
    /\ lock_handle = [p \in Procs |-> IF lock_pc[p] = "running" THEN 1 ELSE 0]
    /\ inode_lock = [i \in 1..NumProcs |-> IF i = 1 /\ lock_pc[2] = "running" THEN 2 ELSE 0]
    /\ ch_window = <<>>
    /\ ch_period = 0
    /\ ch_result = [which |-> "none"]
    /\ ProcIdle

NextMain ==
    MainConstruct \/ MainTicker \/ MainSlot \/ MainRaise \/ MainExcept \/ MainFinally
        \/ MainEnd

SpecMain == InitMain /\ [][NextMain]_vars

(***************************************************************************)
(* A channel computation on its own: the rows a slot has, given to the     *)
(* backtester's channel code and to the live bot's.                        *)
(***************************************************************************)
ChannelBars == Bars \cup {WideBar}

ChannelWindows ==
    UNION {[1..n -> ChannelBars] : n \in 0..MaxWindow}

\* five flat bars and the reference bar after them
ScenarioWindow == <<FlatBar(100), FlatBar(102), FlatBar(99), FlatBar(105), FlatBar(101),
                    FlatBar(106)>>

ChannelUnchanged ==
    UNCHANGED <<mode, btvars, livevars, lockvars, procvars, ch_window, ch_period>>

\* run_backtest lines 295-328 on the rows up to today, for a FLAT slot
ApplyBacktestChannel ==
    /\ mode = "channel"
    /\ ch_result.which = "none"
    /\ EnoughCandles(ch_window, ch_period)
    /\ LET st == process_period(Ledger, 1, "A", ch_period, ch_window, CapUnit, coin_settings)
           position_key == KeyOf("A", ch_period)
       IN  ch_result' = [which |-> "backtest",
                         ch |-> BacktestChannel(ch_window, ch_period),
                         entry |-> IF position_key \in DOMAIN st.positions
                                   THEN st.positions[position_key].side ELSE "none"]
    /\ ChannelUnchanged

\* get_donchian_channel on the rows GetOhlcv returned for count = period + 2
ApplyLiveChannel ==
    /\ mode = "channel"
    /\ ch_result.which = "none"
    /\ Len(ch_window) <= ch_period + 2
    /\ ch_result' = [which |-> "live", ch |-> get_donchian_channel(ch_window, ch_period)]
    /\ ChannelUnchanged

InitChannel ==
    /\ mode = "channel"
    /\ volatility_period = VolPeriodSmall
    /\ active_coins = <<"A">>
    /\ long_only = FALSE
    /\ historical_data = <<>>
    /\ FreshBacktester
    /\ LiveIdle
    /\ lock_pc = [p \in Procs |-> "idle"]
    /\ lock_handle = [p \in Procs |-> 0]
    /\ lock_path = 0
    /\ inode_lock = [i \in 1..NumProcs |-> 0]
    /\ next_inode = 0
    /\ \/ ch_window \in ChannelWindows /\ ch_period \in PeriodSet
       \/ ch_window = ScenarioWindow /\ ch_period = 3
    /\ ch_result = [which |-> "none"]
    /\ ProcIdle

NextChannel == ApplyBacktestChannel \/ ApplyLiveChannel

SpecChannel == InitChannel /\ [][NextChannel]_vars

(***************************************************************************)
(* The program: a backtest, or invocations of the live bot.                *)
(***************************************************************************)
Init == InitBacktest \/ InitLive

Next == NextBacktest \/ NextLive

Spec == Init /\ [][Next]_vars

(***************************************************************************)
(* Vocabulary of the properties: the channel of a slot read directly off   *)
(* the candle rows, and what a tick's log and the trade records show.      *)
(***************************************************************************)
SetMax(S) == CHOOSE m \in S : \A x \in S : x <= m

SetMin(S) == CHOOSE m \in S : \A x \in S : m <= x

\* the `period` bars before the last row, which is the reference bar
UpperBefore(rows, period) ==
    SetMax({rows[i].high : i \in (Len(rows) - period)..(Len(rows) - 1)})

LowerBefore(rows, period) ==
    SetMin({rows[i].low : i \in (Len(rows) - period)..(Len(rows) - 1)})

RefClose(rows) == rows[Len(rows)].close

Logged(log, kind, coin) ==
    \E i \in 1..Len(log) : log[i].kind = kind /\ log[i].coin = coin

Evaluated(log, coin, period) ==
    \E i \in 1..Len(log) :
        log[i].kind = "channel" /\ log[i].coin = coin /\ log[i].period = period

\* the period of a trade record, as a number (a CLOSE record holds its text)
PeriodOf(rec) == IF rec.action = "CLOSE" THEN rec.period.str ELSE rec.period

RecordsOf(trades, key) ==
    LET mine(rec) == rec.ticker = key.ticker /\ PeriodOf(rec) = key.period
    IN  SelectSeq(trades, mine)

TickStep == mode = "backtest" /\ current_date' = current_date + 1

(***************************************************************************)
(* C1.  After any sequence of ticks of run_backtest or of the live run(),  *)
(* every (asset, period) key holds at most one Position: a key holds a     *)
(* Position exactly when its last trade record is an OPEN, and two OPEN    *)
(* records of a key are always separated by a CLOSE record of that key.    *)
(***************************************************************************)
OpensSeparated(recs) ==
    \A i, j \in 1..Len(recs) :
        (i < j /\ recs[i].action = "OPEN" /\ recs[j].action = "OPEN") =>
            \E k \in (i + 1)..(j - 1) : recs[k].action = "CLOSE"

\* the rows of the live bot's CSV log for a key
RowsOf(rows, key) ==
    LET mine(row) == row.ticker = key.ticker /\ row.period = key.period
    IN  SelectSeq(rows, mine)

C2_PerCoinEquitySumsToTotal ==
    \A i \in 1..Len(portfolio_history) :
        portfolio_history[i].value =
            SumOver(DOMAIN portfolio_history_by_coin,
                    [c \in DOMAIN portfolio_history_by_coin |->
                        portfolio_history_by_coin[c][i].value])

\* a snapshot of two coins that both traded, with an open position marked away
\* from its entry price
C2_Witness ==
    /\ mode = "backtest"
    /\ Len(active_coins) = 2
    /\ \A c \in CoinSet(active_coins) :
          \E i \in 1..Len(trade_history) : trade_history[i].ticker = c
    /\ \E k \in MarkedKeys(positions, historical_data, current_date) :
          UnrealizedOf(positions, historical_data, current_date)[k] # 0
    /\ portfolio_history[Len(portfolio_history)].date = current_date

(***************************************************************************)
(* C3.  simulate_open called for a key that holds a Position fails loudly: *)
(* it raises, and positions, cash and trade_history stay as they were.     *)
(***************************************************************************)
C3_OpenOnOpenKeyFailsLoudly ==
    [][(mode = "ledger" /\ last_call'.op = "simulate_open"
            /\ last_call'.date = current_date + 1
            /\ last_call'.key \in DOMAIN positions)
        => (/\ raised' # "none"
            /\ positions' = positions
            /\ cash' = cash
            /\ trade_history' = trade_history)]_vars

(***************************************************************************)
(* C4.  A call of the live open_position or close_position, whatever its   *)
(* collaborators do, either changes the ledger and writes exactly one      *)
(* trade record, or leaves the ledger unchanged and writes none.           *)
(***************************************************************************)
C4_LedgerAndRecordTogether ==
    [][mode = "live_calls" =>
          LET changed == current_positions' # current_positions
              written == Len(csv_log') - Len(csv_log)
          IN  (changed /\ written = 1) \/ (~changed /\ written = 0)]_vars

(***************************************************************************)
(* C5.  At most one process at a time is between a successful acquire_lock *)
(* and its release_lock, whatever the interleaving of the processes.       *)
(***************************************************************************)
C5_MutualExclusion ==
    mode = "lock" => Cardinality({p \in Procs : lock_pc[p] = "running"}) <= 1

(***************************************************************************)
(* C6.  A computed channel, of the backtest driver or of the live          *)
(* get_donchian_channel, takes its reference price from the close of the   *)
(* last completed bar and its upper and lower bounds from the `period`     *)
(* bars before that bar.                                                   *)
(***************************************************************************)
C6_ReferenceBarExcluded ==
    (mode = "channel" /\ ch_result.which # "none"
        /\ (ch_result.which = "live" => ch_result.ch.ok)) =>
        LET rows == IF ch_result.which = "live" THEN DropLast(ch_window) ELSE ch_window
            ch == ch_result.ch
        IN  /\ ch.last_close = RefClose(rows)
            /\ ch.high = UpperBefore(rows, ch_period)
            /\ ch.low = LowerBefore(rows, ch_period)

(***************************************************************************)
(* C7.  On a tick, a slot that is FLAT and evaluated opens LONG exactly    *)
(* when the reference close is above the upper bound, opens SHORT exactly  *)
(* when it is below the lower bound and long_only is false, and stays FLAT *)
(* otherwise (ties included); with long_only no SHORT position or SHORT    *)
(* trade record ever exists.                                               *)
(***************************************************************************)
OpenedNow(key, side, price) ==
    /\ key \in DOMAIN positions'
    /\ positions'[key].side = side
    /\ positions'[key].entry_price = price
    /\ \E i \in (Len(trade_history) + 1)..Len(trade_history') :
          /\ trade_history'[i].action = "OPEN"
          /\ trade_history'[i].ticker = key.ticker
          /\ trade_history'[i].period = key.period
          /\ trade_history'[i].side = side

C7_EntryStep ==
    TickStep =>
        \A c \in DOMAIN historical_data, p \in PeriodSet :
            (Evaluated(tick_log', c, p) /\ KeyOf(c, p) \notin DOMAIN positions) =>
                LET rows == historical_data'[c]
                    ref == RefClose(rows)
                    long == ref > UpperBefore(rows, p)
                    short == ref < LowerBefore(rows, p) /\ ~long_only
                IN  /\ OpenedNow(KeyOf(c, p), "LONG", ref) <=> long
                    /\ OpenedNow(KeyOf(c, p), "SHORT", ref) <=> short
                    /\ (~long /\ ~short) => KeyOf(c, p) \notin DOMAIN positions'

NoShort ==
    /\ \A k \in DOMAIN positions : positions[k].side # "SHORT"
    /\ \A i \in 1..Len(trade_history) : trade_history[i].side # "SHORT"

C7_EntryRule == [][C7_EntryStep]_vars /\ [](mode = "backtest" /\ long_only => NoShort)

\* the ledger holds a LONG and a SHORT opened by ticks, and a slot that was
\* evaluated on a tie with its upper bound stayed FLAT
C7_Witness ==
    /\ mode = "backtest"
    /\ \E k \in DOMAIN positions : positions[k].side = "LONG"
    /\ \E k \in DOMAIN positions : positions[k].side = "SHORT"
    /\ \E c \in DOMAIN historical_data, p \in PeriodSet :
          /\ Evaluated(tick_log, c, p)
          /\ KeyOf(c, p) \notin DOMAIN positions
          /\ RefClose(historical_data[c]) = UpperBefore(historical_data[c], p)

(***************************************************************************)
(* C8.  A slot that holds a Position and is evaluated is closed exactly    *)
(* when its reference close is below the midline (LONG) or above it        *)
(* (SHORT), the midline being half the sum of the upper and lower bounds   *)
(* of the `period` bars before the reference bar; a tie closes nothing,    *)
(* and no close is attempted on a FLAT slot.                               *)
(***************************************************************************)
ExitDue(side, rows, period) ==
    \/ side = "LONG" /\ 2 * RefClose(rows) < UpperBefore(rows, period) + LowerBefore(rows, period)
    \/ side = "SHORT" /\ 2 * RefClose(rows) > UpperBefore(rows, period) + LowerBefore(rows, period)

ClosesAppended(key) ==
    {i \in (Len(trade_history) + 1)..Len(trade_history') :
        /\ trade_history'[i].action = "CLOSE"
        /\ trade_history'[i].ticker = key.ticker
        /\ PeriodOf(trade_history'[i]) = key.period}

C8_BacktestExitStep ==
    TickStep =>
        /\ raised' = "none"
        /\ \A c \in Coins, p \in PeriodSet :
              LET key == KeyOf(c, p)
                  closed == key \in DOMAIN positions /\ key \notin DOMAIN positions'
              IN  IF key \in DOMAIN positions
                  THEN /\ closed <=> (/\ Evaluated(tick_log', c, p)
                                      /\ ExitDue(positions[key].side, historical_data'[c], p))
                       /\ Cardinality(ClosesAppended(key)) = IF closed THEN 1 ELSE 0
                       /\ ~closed => positions'[key] = positions[key]
                  ELSE ClosesAppended(key) = {}

C8_LiveExitStep ==
    (mode = "live" /\ live_pc = "slot" /\ live_log'.ok) =>
        LET key == KeyOf(live_log'.ticker, live_log'.period)
            attempted == live_log'.call = "close_position"
        IN  IF key \in DOMAIN current_positions
            THEN attempted <=> ExitDue(current_positions[key].side,
                                       DropLast(live_log'.ohlcv), key.period)
            ELSE ~attempted

C8_BacktestExitRule == [][C8_BacktestExitStep]_vars

C8_ExitRule == [][C8_BacktestExitStep /\ C8_LiveExitStep]_vars

\* a tick closed a LONG and a tick closed a SHORT, and an evaluated slot whose
\* reference close equals its midline kept its Position
C8_BacktestWitness ==
    /\ mode = "backtest"
    /\ \E i \in 1..Len(trade_history) :
          trade_history[i].action = "CLOSE" /\ trade_history[i].side = "LONG"
    /\ \E k \in DOMAIN positions :
          /\ Evaluated(tick_log, k.ticker, k.period)
          /\ 2 * RefClose(historical_data[k.ticker])
                 = UpperBefore(historical_data[k.ticker], k.period)
                     + LowerBefore(historical_data[k.ticker], k.period)

(***************************************************************************)
(* C9.  With the scaler passed, a slot of lookback `period` is evaluated   *)
(* on a tick that has exactly period + 1 candles up to its date, and is    *)
(* skipped on a tick that has only `period` of them.                       *)
(***************************************************************************)
C9_EvaluatedFromPeriodPlusOne ==
    mode = "backtest" =>
        \A c \in DOMAIN historical_data, p \in PeriodSet :
            Logged(tick_log, "capital", c) =>
                /\ Len(historical_data[c]) = p + 1 => Evaluated(tick_log, c, p)
                /\ Len(historical_data[c]) = p => ~Evaluated(tick_log, c, p)

(***************************************************************************)
(* C10.  On a tick the scaler computes a multiplier for an asset exactly   *)
(* when at least volatility_period - 5 daily returns are available and     *)
(* their scaled volatility is not zero; with volatility_period = 90, 85    *)
(* returns compute and 80 returns skip the asset.                          *)
(***************************************************************************)
\* the daily returns the scaler has: one fewer than the rows of its window
ReturnsAvailable(rows, vol_period) ==
    (IF Len(rows) <= vol_period + 1 THEN Len(rows) ELSE vol_period + 1) - 1

\* the returns of the window are not all equal (their deviation is not zero)
ReturnsDiffer(rows, vol_period) ==
    LET n == Len(rows)
        first == n - ReturnsAvailable(rows, vol_period)
    IN  \E i, j \in first..(n - 1) :
            rows[i + 1].close * rows[j].close # rows[j + 1].close * rows[i].close

C10_ScalerThreshold ==
    (mode = "backtest" /\ current_date > 0) =>
        \A c \in DOMAIN historical_data :
            LET rows == historical_data[c]
                n == ReturnsAvailable(rows, volatility_period)
            IN  rows # <<>> =>
                /\ Logged(tick_log, "capital", c)
                       <=> (n >= volatility_period - 5 /\ ReturnsDiffer(rows, volatility_period))
                /\ (volatility_period = 90 /\ n = 85 /\ ReturnsDiffer(rows, volatility_period))
                       => Logged(tick_log, "capital", c)
                /\ (volatility_period = 90 /\ n = 80) => ~Logged(tick_log, "capital", c)

\* the scaler computed a multiplier from exactly 85 returns with volatility_period 90
C10_Witness ==
    /\ mode = "backtest"
    /\ volatility_period = 90
    /\ ReturnsAvailable(historical_data["A"], volatility_period) = 85
    /\ Logged(tick_log, "capital", "A")

\* the scaler skipped an asset that had exactly 80 returns with volatility_period 90
C10_SkipReached ==
    /\ mode = "backtest"
    /\ volatility_period = 90
    /\ current_date > 0
    /\ ReturnsAvailable(historical_data["A"], volatility_period) = 80
    /\ Logged(tick_log, "insufficient", "A")

(***************************************************************************)
(* C11.  The live calculate_volatility returns a volatility exactly when   *)
(* the candles it fetched give at least volatility_period - 5 daily        *)
(* returns, and None only below that.                                      *)
(***************************************************************************)
C11_LiveVolatilityTolerance ==
    [][(mode = "live" /\ live_pc = "ticker" /\ ticker_idx <= Len(active_coins)) =>
          (live_log'.returned
              <=> Len(live_log'.ohlcv) - 1 >= volatility_period - VolTolerance)]_vars

(***************************************************************************)
(* C12.  simulate_open on a FLAT key with capital c, leverage l and price  *)
(* p stores a Position with amount = c*l/p, entry_price = p, leverage = l, *)
(* takes fee = c*l*fee_rate off cash and appends one OPEN record with      *)
(* value = c*l and pnl = -fee; c = 1000, l = 5, p = 50 give amount 100 and *)
(* notional 5000.                                                          *)
(***************************************************************************)
LeverageOf(side) ==
    IF side = "LONG" THEN LedgerSettings.long_leverage ELSE LedgerSettings.short_leverage

OneRecordAppended ==
    /\ Len(trade_history') = Len(trade_history) + 1
    /\ SubSeq(trade_history', 1, Len(trade_history)) = trade_history

OtherKeysKept(key) ==
    /\ DOMAIN positions' \ {key} = DOMAIN positions \ {key}
    /\ \A k \in DOMAIN positions \ {key} : positions'[k] = positions[k]

C12_OpenStep ==
    (mode = "ledger" /\ last_call'.op = "simulate_open"
        /\ last_call'.date = current_date + 1
        /\ last_call'.key \notin DOMAIN positions) =>
        LET key == last_call'.key
            c == last_call'.capital
            p == last_call'.price
            l == LeverageOf(last_call'.side)
            fee == (c * l * FeeNum) \div FeeDen
            rec == trade_history'[Len(trade_history')]
        IN  /\ raised' = "none"
            /\ key \in DOMAIN positions'
            /\ positions'[key].side = last_call'.side
            /\ positions'[key].amount * p = c * l
            /\ positions'[key].entry_price = p
            /\ positions'[key].leverage = l
            /\ OtherKeysKept(key)
            /\ fee * FeeDen = c * l * FeeNum
            /\ cash' = cash - fee
            /\ OneRecordAppended
            /\ rec.action = "OPEN" /\ rec.ticker = key.ticker /\ rec.period = key.period
            /\ rec.side = last_call'.side /\ rec.price = p
            /\ rec.value = c * l
            /\ rec.pnl = 0 - fee
            /\ (c = 1000 /\ l = 5 /\ p = 50)
                   => (positions'[key].amount = 100 /\ rec.value = 5000)

C12_OpenOnFlat == [][C12_OpenStep]_vars

\* the first call opened a LONG with capital 1000 at price 50 on a FLAT key
C12_Witness ==
    /\ mode = "ledger"
    /\ last_call.op = "simulate_open"
    /\ last_call.capital = 1000 /\ last_call.side = "LONG" /\ last_call.price = 50
    /\ Len(trade_history) = 1
    /\ last_call.key \in DOMAIN positions
    /\ positions[last_call.key].amount = 100

(***************************************************************************)
(* C13.  simulate_close on an OPEN key at price p removes the Position,    *)
(* realizes (p - entry_price)*amount*leverage for a LONG and               *)
(* (entry_price - p)*amount*leverage for a SHORT, charges                  *)
(* fee = amount*p*leverage*fee_rate, adds realized PnL - fee to cash and   *)
(* appends one CLOSE record whose pnl is realized PnL - fee.               *)
(***************************************************************************)
C13_CloseStep ==
    (mode = "ledger" /\ last_call'.op = "simulate_close"
        /\ last_call'.date = current_date + 1
        /\ last_call'.key \in DOMAIN positions) =>
        LET key == last_call'.key
            p == last_call'.price
            pos == positions[key]
            realized == IF pos.side = "LONG"
                        THEN (p - pos.entry_price) * pos.amount * pos.leverage
                        ELSE (pos.entry_price - p) * pos.amount * pos.leverage
            notional == pos.amount * p * pos.leverage
            fee == (notional * FeeNum) \div FeeDen
            rec == trade_history'[Len(trade_history')]
        IN  /\ raised' = "none"
            /\ key \notin DOMAIN positions'
            /\ OtherKeysKept(key)
            /\ fee * FeeDen = notional * FeeNum
            /\ cash' = cash + realized - fee
            /\ OneRecordAppended
            /\ rec.action = "CLOSE" /\ rec.ticker = key.ticker
            /\ rec.side = pos.side /\ rec.price = p
            /\ rec.pnl = realized - fee

C13_CloseOnOpen == [][C13_CloseStep]_vars

\* a SHORT was opened and then closed at a lower price, at a profit
C13_Witness ==
    /\ mode = "ledger"
    /\ last_call.op = "simulate_close"
    /\ Len(trade_history) = 2
    /\ trade_history[1].action = "OPEN" /\ trade_history[1].side = "SHORT"
    /\ trade_history[2].action = "CLOSE" /\ trade_history[2].side = "SHORT"
    /\ trade_history[2].price < trade_history[1].price
    /\ trade_history[2].pnl > 0
    /\ positions = <<>>

(***************************************************************************)
(* C14.  A LONG opened with capital 1000, leverage 5 at price 50 and       *)
(* closed at price 55 realizes (55 - 50) * 100 * 5 = 2500, and the ledger  *)
(* keeps that less the open fee and the close fee.  (As first stated, with *)
(* 25000 for the product: C14_RealizedPnlAsStated.)                        *)
(***************************************************************************)
\* the ledger after exactly that open and that close
LongRoundTrip ==
    /\ mode = "ledger"
    /\ Len(trade_history) = 2
    /\ trade_history[1].action = "OPEN" /\ trade_history[1].side = "LONG"
    /\ trade_history[1].value = 5000 /\ trade_history[1].leverage = 5
    /\ trade_history[1].price = 50
    /\ trade_history[2].action = "CLOSE" /\ trade_history[2].price = 55
    /\ trade_history[2].ticker = trade_history[1].ticker
    /\ PeriodOf(trade_history[2]) = trade_history[1].period

\* the fee a record paid: fee_rate of its notional value
FeePaid(rec) == (rec.value * FeeNum) \div FeeDen

RoundTripRealizes(realized) ==
    LongRoundTrip =>
        /\ trade_history[1].amount = 100
        /\ trade_history[2].pnl + FeePaid(trade_history[2]) = realized
        /\ cash = initial_capital + realized
                      - FeePaid(trade_history[1]) - FeePaid(trade_history[2])

C14_RealizedPnl == RoundTripRealizes(2500)

C14_RealizedPnlAsStated == RoundTripRealizes(25000)

C14_Witness == LongRoundTrip /\ positions = <<>>

(***************************************************************************)
(* C15.  For period = 3, the bars [100,102,99,105,101] (high = low = close *)
(* each) and a reference close of 106, the backtest driver takes the upper *)
(* bound from the 3 bars before the reference bar, which is 105, and since *)
(* 106 > 105 opens a LONG on the FLAT slot.  (As first stated, with 102    *)
(* for the upper bound: C15_ScenarioAsStated.)                             *)
(***************************************************************************)
ScenarioComputed ==
    /\ mode = "channel"
    /\ ch_window = ScenarioWindow
    /\ ch_period = 3
    /\ ch_result.which = "backtest"

ScenarioGives(upper) ==
    ScenarioComputed =>
        /\ ch_result.ch.high = upper
        /\ ch_result.ch.last_close = 106
        /\ ch_result.entry = "LONG"

C15_Scenario == ScenarioGives(105)

C15_ScenarioAsStated == ScenarioGives(102)

C15_Witness == ScenarioComputed /\ ch_result.entry = "LONG"

(***************************************************************************)
(* C16.  After any sequence of backtest ticks, trade_history holds one     *)
(* record per FLAT->OPEN or OPEN->FLAT transition and no other, records    *)
(* already appended are never modified or removed, the records of a key    *)
(* alternate OPEN, CLOSE starting with OPEN, and the dates do not decrease *)
(* along the log.                                                          *)
(***************************************************************************)
AppendedFor(key, action) ==
    {i \in (Len(trade_history) + 1)..Len(trade_history') :
        /\ trade_history'[i].action = action
        /\ trade_history'[i].ticker = key.ticker
        /\ PeriodOf(trade_history'[i]) = key.period}

C16_TickStep ==
    TickStep =>
        /\ Len(trade_history') >= Len(trade_history)
        /\ SubSeq(trade_history', 1, Len(trade_history)) = trade_history
        /\ \A i \in (Len(trade_history) + 1)..Len(trade_history') :
              /\ trade_history'[i].date = current_date'
              /\ trade_history'[i].ticker \in Coins
              /\ PeriodOf(trade_history'[i]) \in PeriodSet
        /\ \A c \in Coins, p \in PeriodSet :
              LET key == KeyOf(c, p)
                  opened == key \notin DOMAIN positions /\ key \in DOMAIN positions'
                  closed == key \in DOMAIN positions /\ key \notin DOMAIN positions'
              IN  /\ Cardinality(AppendedFor(key, "OPEN")) = IF opened THEN 1 ELSE 0
                  /\ Cardinality(AppendedFor(key, "CLOSE")) = IF closed THEN 1 ELSE 0
                  /\ (key \in DOMAIN positions /\ key \in DOMAIN positions')
                         => positions'[key] = positions[key]

C16_LogShape ==
    mode = "backtest" =>
        /\ \A i \in 1..(Len(trade_history) - 1) :
              trade_history[i].date <= trade_history[i + 1].date
        /\ \A c \in Coins, p \in PeriodSet :
              LET recs == RecordsOf(trade_history, KeyOf(c, p)) IN
              \A i \in 1..Len(recs) :
                  recs[i].action = IF i % 2 = 1 THEN "OPEN" ELSE "CLOSE"

C16_AppendOnlyLog == [][C16_TickStep]_vars /\ []C16_LogShape

\* two keys traded on different days, and one of them was opened and closed
C16_Witness ==
    /\ mode = "backtest"
    /\ \E i, j \in 1..Len(trade_history) :
          /\ i < j
          /\ trade_history[i].date < trade_history[j].date
          /\ trade_history[i].action = "OPEN" /\ trade_history[j].action = "CLOSE"
          /\ trade_history[i].ticker = trade_history[j].ticker
          /\ trade_history[i].period = PeriodOf(trade_history[j])
    /\ \E i, j \in 1..Len(trade_history) :
          trade_history[i].ticker # trade_history[j].ticker

(***************************************************************************)
(* C17.  simulate_close called for a key that holds no Position raises     *)
(* before any effect: positions, cash and trade_history are as they were   *)
(* before the call.                                                        *)
(***************************************************************************)
C17_CloseOnFlatRaises ==
    [][(mode = "ledger" /\ last_call'.op = "simulate_close"
            /\ last_call'.date = current_date + 1
            /\ last_call'.key \notin DOMAIN positions)
        => (/\ raised' # "none"
            /\ positions' = positions
            /\ cash' = cash
            /\ trade_history' = trade_history)]_vars

\* a close of a FLAT key raised while the ledger held another key's Position
C17_Witness ==
    /\ mode = "ledger"
    /\ last_call.op = "simulate_close"
    /\ raised = "KeyError"
    /\ last_call.key \notin DOMAIN positions
    /\ positions # <<>>
    /\ trade_history # <<>>

(***************************************************************************)
(* C18.  On a tick where the volatility scaler fails for an asset (too few *)
(* returns, or zero scaled volatility), no slot of that asset is evaluated,*)
(* opened or closed and its ledger entries stay as they were; the skip     *)
(* holds for that tick only, and every asset whose scaler passes is        *)
(* processed.                                                              *)
(***************************************************************************)
ScalerFails(rows, vol_period) ==
    \/ ReturnsAvailable(rows, vol_period) < vol_period - 5
    \/ ~ReturnsDiffer(rows, vol_period)

C18_BacktestStep ==
    TickStep =>
        \A c \in DOMAIN historical_data :
            historical_data'[c] # <<>> =>
                IF ScalerFails(historical_data'[c], volatility_period)
                THEN \A p \in PeriodSet :
                        LET key == KeyOf(c, p) IN
                        /\ ~Evaluated(tick_log', c, p)
                        /\ (key \in DOMAIN positions) <=> (key \in DOMAIN positions')
                        /\ key \in DOMAIN positions => positions'[key] = positions[key]
                        /\ AppendedFor(key, "OPEN") = {}
                        /\ AppendedFor(key, "CLOSE") = {}
                ELSE Logged(tick_log', "capital", c)

C18_LiveStep ==
    (mode = "live" /\ live_pc = "ticker" /\ ticker_idx <= Len(active_coins)) =>
        IF ~live_log'.returned \/ live_log'.vol = 0
        THEN /\ live_pc' = "ticker"
             /\ ticker_idx' = ticker_idx + 1
             /\ current_positions' = current_positions
             /\ positions_file' = positions_file
             /\ csv_log' = csv_log
             /\ orders' = orders
        ELSE live_pc' = "slot" /\ ticker_idx' = ticker_idx

C18_OthersProcessed ==
    /\ mode = "backtest"
    /\ active_coins = <<"B", "A">> \/ active_coins = <<"A", "B">>
    /\ current_date > 0
    /\ ScalerFails(historical_data["A"], volatility_period)
    /\ \E i \in 1..Len(trade_history) :
          trade_history[i].ticker = "B" /\ trade_history[i].date = current_date

\* the live bot skipped an asset whose slot holds a Position
C18_LiveSkipReached ==
    /\ mode = "live"
    /\ live_log.call = "calculate_volatility"
    /\ ~live_log.returned \/ live_log.vol = 0
    /\ current_positions # <<>>

(***************************************************************************)
(* C19.  Every backtest tick appends exactly one equity snapshot, taken    *)
(* after all assets and periods of the tick were processed, and the        *)
(* snapshot dates increase by one day from each snapshot to the next.      *)
(***************************************************************************)
C19_TickStep ==
    TickStep =>
        LET new == portfolio_history'[Len(portfolio_history')] IN
        /\ Len(portfolio_history') = Len(portfolio_history) + 1
        /\ SubSeq(portfolio_history', 1, Len(portfolio_history)) = portfolio_history
        /\ new.date = current_date'
        /\ new.cash = cash'
        /\ new.positions_count = Cardinality(DOMAIN positions')
        /\ \A c \in DOMAIN portfolio_history_by_coin :
              /\ Len(portfolio_history_by_coin'[c]) = Len(portfolio_history_by_coin[c]) + 1
              /\ portfolio_history_by_coin'[c][Len(portfolio_history_by_coin'[c])].date
                     = current_date'

C19_SnapshotDates ==
    mode = "backtest" =>
        /\ \A i \in 1..(Len(portfolio_history) - 1) :
              portfolio_history[i + 1].date = portfolio_history[i].date + 1
        /\ portfolio_history[Len(portfolio_history)].date = current_date

C19_OneSnapshotPerTick == [][C19_TickStep]_vars /\ []C19_SnapshotDates

\* three ticks were taken, and the last one's snapshot shows the fee of the trade
\* that tick made
C19_Witness ==
    /\ mode = "backtest"
    /\ current_date = 3
    /\ Len(portfolio_history) = 4
    /\ \E i \in 1..Len(trade_history) : trade_history[i].date = 3
    /\ portfolio_history[4].cash # portfolio_history[3].cash
    /\ portfolio_history[4].cash = cash

(***************************************************************************)
(* C20.  The total equity of a snapshot is strategy_investment plus the    *)
(* pnl of all trade records so far plus the unrealized PnL of the open     *)
(* positions at the close of the snapshot's date; an open position whose   *)
(* asset has no candle at that date adds nothing to the total and nothing  *)
(* to its asset's value.                                                   *)
(***************************************************************************)
HasCandle(c, date) == \E i \in 1..Len(historical_data[c]) : historical_data[c][i].date = date

CandleClose(c, date) ==
    LET i == CHOOSE j \in 1..Len(historical_data[c]) : historical_data[c][j].date = date
    IN  historical_data[c][i].close

\* what an open position adds to the equity at a date
MarkOf(key, date) ==
    IF ~HasCandle(key.ticker, date) THEN 0
    ELSE IF positions[key].side = "LONG"
    THEN (CandleClose(key.ticker, date) - positions[key].entry_price)
             * positions[key].amount * positions[key].leverage
    ELSE (positions[key].entry_price - CandleClose(key.ticker, date))
             * positions[key].amount * positions[key].leverage

RECURSIVE MarkSum(_, _)
MarkSum(keys, date) ==
    IF keys = {} THEN 0
    ELSE LET k == CHOOSE x \in keys : TRUE IN MarkOf(k, date) + MarkSum(keys \ {k}, date)

RECURSIVE PnlSum(_, _)
PnlSum(i, coins) ==
    IF i = 0 THEN 0
    ELSE (IF trade_history[i].ticker \in coins THEN trade_history[i].pnl ELSE 0)
             + PnlSum(i - 1, coins)

C20_TotalEquity ==
    mode = "backtest" =>
        /\ portfolio_history[Len(portfolio_history)].value
               = strategy_investment + PnlSum(Len(trade_history), Coins)
                     + MarkSum(DOMAIN positions, current_date)
        /\ \A c \in DOMAIN portfolio_history_by_coin :
              portfolio_history_by_coin[c][Len(portfolio_history_by_coin[c])].value
                  = strategy_investment \div Len(active_coins)
                        + PnlSum(Len(trade_history), {c})
                        + MarkSum({k \in DOMAIN positions : k.ticker = c}, current_date)

\* one asset's position is marked away from its entry price, another asset's
\* position has no candle at the snapshot's date
C20_Witness ==
    /\ mode = "backtest"
    /\ \E k \in DOMAIN positions : MarkOf(k, current_date) # 0
    /\ \E k \in DOMAIN positions :
          /\ ~HasCandle(k.ticker, current_date)
          /\ CandleClose(k.ticker, historical_data[k.ticker][Len(historical_data[k.ticker])].date)
                 # positions[k].entry_price

(***************************************************************************)
(* C21.  Within one backtest tick, processing the assets and the periods   *)
(* in any permuted order leaves the same position map, the same cash and   *)
(* the same equity snapshot as the configuration order; only the order of  *)
(* the trade records appended during the tick differs.                     *)
(***************************************************************************)
Orders(seq) ==
    {p \in [1..Len(seq) -> {seq[i] : i \in 1..Len(seq)}] :
        \A i \in 1..Len(seq) : \E j \in 1..Len(seq) : p[j] = seq[i]}

\* a CLOSE record holds its period as text, an OPEN record as a number
Occurrences(recs, r) ==
    Cardinality({i \in 1..Len(recs) : recs[i].action = r.action /\ recs[i] = r})

SameRecords(a, b) ==
    /\ Len(a) = Len(b)
    /\ \A i \in 1..Len(a) : Occurrences(a, a[i]) = Occurrences(b, a[i])

\* the tick just taken, had the coins been listed as cs and the periods as ps
Reordered(cs, ps) ==
    process_coins(Ledger, cs, ps, historical_data', current_date', 1, coin_settings)

C21_TickStep ==
    (mode = "order" /\ current_date' = current_date + 1) =>
        \A cs \in Orders(active_coins), ps \in Orders(donchian_periods) :
        \E alt \in {Reordered(cs, ps)} :
        \E value \in {calculate_portfolio_value(cs, alt.positions, alt.trade_history,
                                                historical_data', current_date')} :
        \E added \in {Len(trade_history') - Len(trade_history)} :
        \E mine \in {Tail_(alt.trade_history, added)}, theirs \in {Tail_(trade_history', added)} :
            /\ alt.positions = positions'
            /\ alt.cash = cash'
            /\ HistoryEntry(value, alt, current_date')
                   = portfolio_history'[Len(portfolio_history')]
            /\ \A c \in DOMAIN portfolio_history_by_coin :
                  portfolio_history_by_coin'[c][Len(portfolio_history_by_coin'[c])].value
                      = value.per_coin[c]
            /\ Len(alt.trade_history) = Len(trade_history')
            /\ SubSeq(alt.trade_history, 1, Len(trade_history)) = trade_history
            /\ SameRecords(mine, theirs)

C21_OrderIndependent == [][C21_TickStep]_vars

\* a tick traded three slots: two periods of one coin and a slot of the other coin
C21_Witness ==
    /\ mode = "order"
    /\ \E i, j, k \in 1..Len(trade_history) :
          /\ trade_history[i].date = current_date
          /\ trade_history[j].date = current_date
          /\ trade_history[k].date = current_date
          /\ trade_history[i].ticker = trade_history[j].ticker
          /\ PeriodOf(trade_history[i]) # PeriodOf(trade_history[j])
          /\ trade_history[k].ticker # trade_history[i].ticker

(***************************************************************************)
(* C22.  While a slot's Position is open, no later tick changes its side,  *)
(* amount, entry_price or leverage, also not a tick on which the entry     *)
(* condition of the slot holds again or on which the volatility multiplier *)
(* differs; the only change is the removal by a close.                     *)
(***************************************************************************)
SameTerms(a, b) ==
    /\ a.side = b.side
    /\ a.amount = b.amount
    /\ a.entry_price = b.entry_price
    /\ a.leverage = b.leverage

C22_BacktestStep ==
    TickStep =>
        \A k \in DOMAIN positions :
            IF k \in DOMAIN positions'
            THEN SameTerms(positions[k], positions'[k])
                     /\ positions'[k].entry_date = positions[k].entry_date
            ELSE \E i \in (Len(trade_history) + 1)..Len(trade_history') :
                    /\ trade_history'[i].action = "CLOSE"
                    /\ trade_history'[i].ticker = k.ticker
                    /\ PeriodOf(trade_history'[i]) = k.period

C22_LiveStep ==
    (mode = "live" /\ live_pc \in {"ticker", "slot"}) =>
        /\ \A k \in DOMAIN current_positions :
              IF k \in DOMAIN current_positions'
              THEN SameTerms(current_positions[k], current_positions'[k])
              ELSE /\ live_log'.call = "close_position"
                   /\ KeyOf(live_log'.ticker, live_log'.period) = k
                   /\ Len(orders') = Len(orders) + 1
        /\ \A k \in (DOMAIN positions_file) \cap (DOMAIN positions_file') :
              SameTerms(positions_file[k], positions_file'[k])

C22_OpenPositionFrozen == [][C22_BacktestStep /\ C22_LiveStep]_vars

\* a LONG position opened on an earlier day is still held, unchanged, after a tick
\* whose close rose above the channel again and whose capital per period would buy
\* another amount
C22_Witness ==
    /\ mode = "backtest"
    /\ \E k \in DOMAIN positions :
          /\ positions[k].side = "LONG"
          /\ positions[k].entry_date < current_date
          /\ \E i, j \in 1..Len(tick_log) :
                /\ tick_log[i].kind = "channel"
                /\ tick_log[i].coin = k.ticker
                /\ tick_log[i].period = k.period
                /\ tick_log[i].last_close > tick_log[i].high
                /\ tick_log[j].kind = "capital"
                /\ tick_log[j].coin = k.ticker
                /\ (tick_log[j].capital_per_period * positions[k].leverage)
                       \div tick_log[i].last_close # positions[k].amount

\* the live bot found a held slot's exit not due and left the slot as it was
C22_LiveHeld ==
    /\ mode = "live"
    /\ live_log.ok
    /\ live_log.call = "none"
    /\ KeyOf(live_log.ticker, live_log.period) \in DOMAIN current_positions

(***************************************************************************)
(* C23.  In live mode, when the current-price lookup returns 0 or a        *)
(* non-positive value, open_position and close_position place no order and *)
(* leave the ledger, the persisted positions file and the trade log        *)
(* unchanged; GetCoinNowPrice itself returns a strictly positive price     *)
(* or 0.                                                                   *)
(***************************************************************************)
C23_CallStep ==
    (mode = "live_calls" /\ live_run' = live_run + 1 /\ live_log'.out.price <= 0) =>
        /\ orders' = orders
        /\ current_positions' = current_positions
        /\ positions_file' = positions_file
        /\ csv_log' = csv_log
        /\ alerts' = alerts

\* the numbers a ticker dict holds
NumbersOf(r) ==
    IF r.kind # "dict" THEN {}
    ELSE {r.coin_info[k].num : k \in {k \in DOMAIN r.coin_info : r.coin_info[k].kind = "num"}}

C23_PriceReturned ==
    (mode = "price" /\ live_log.call = "GetCoinNowPrice") =>
        /\ live_log.returned >= 0
        /\ live_log.returned > 0 =>
              \E i \in 1..Len(live_log.responses) :
                  live_log.returned \in NumbersOf(live_log.responses[i])

C23_NoPriceNoAction == [][C23_CallStep]_vars /\ []C23_PriceReturned

\* after a call that placed an order, open_position found no price
C23_Witness ==
    /\ mode = "live_calls"
    /\ live_log.call = "open_position"
    /\ live_log.out.price = 0
    /\ Len(orders) = 1
    /\ live_run = 2

\* close_position found no price and the position is still held
C23_CloseSkipped ==
    /\ mode = "live_calls"
    /\ live_log.call = "close_position"
    /\ live_log.out.price = 0
    /\ KeyOf(live_log.ticker, live_log.period) \in DOMAIN current_positions

\* the lookup passed over a None, a text and a negative number and returned 0
C23_PriceRejected ==
    /\ mode = "price"
    /\ live_log.call = "GetCoinNowPrice"
    /\ live_log.returned = 0
    /\ live_log.responses = <<DictOf([last |-> FieldNone, close |-> FieldText,
                                       price |-> FieldNum(-2)])>>

\* the lookup returned the price of a later key after two failed attempts
C23_PriceFound ==
    /\ mode = "price"
    /\ live_log.call = "GetCoinNowPrice"
    /\ live_log.returned = 6
    /\ Len(live_log.responses) = 3

(***************************************************************************)
(* C24.  save_json_file is all-or-nothing: whatever step fails and         *)
(* wherever the process dies, the positions file holds the complete        *)
(* previous ledger or the complete new one, never a partial text, and that *)
(* is what the next invocation loads.                                      *)
(***************************************************************************)
C24_FileComplete ==
    mode = "save" =>
        /\ files["positions"].exists => WellFormed(files["positions"].text)
        /\ load_json_file(files["positions"]) \in {positions_file, current_positions}

C24_ReloadStep ==
    (mode = "save" /\ live_run' = live_run + 1) =>
        current_positions' \in {positions_file, current_positions}

C24_AtomicSave == []C24_FileComplete /\ [][C24_ReloadStep]_vars

\* the process died with a half-written temporary file beside a positions file
\* that still holds the previous ledger
C24_Witness ==
    /\ mode = "save"
    /\ save_pc = "crashed"
    /\ files["tmp"].exists
    /\ ~WellFormed(files["tmp"].text)
    /\ files["tmp"].text # <<>>
    /\ positions_file # <<>>
    /\ current_positions # positions_file
    /\ load_json_file(files["positions"]) = positions_file

\* a save went through after an earlier one had died
C24_SavedAfterCrash ==
    /\ mode = "save"
    /\ save_pc = "done"
    /\ live_run = 1
    /\ live_log.call = "load_json_file"
    /\ live_log.after = "crashed"
    /\ load_json_file(files["positions"]) = current_positions
    /\ current_positions # positions_file

(***************************************************************************)
(* C25.  Saving the live ledger with save_json_file and reloading it with  *)
(* load_json_file gives a ledger with the same keys and the same Position  *)
(* records, so that run() takes, on the same candles, the same open/close  *)
(* decision for every slot as with the ledger in memory.                   *)
(***************************************************************************)
\* the channels run() may be given for a slot
DecisionChannels(period) ==
    {ch \in {get_donchian_channel(ohlcv, period) : ohlcv \in LiveChannelWindows(period)} :
        ch.ok}

SameDecisions(a, b) ==
    \A period \in PeriodSet :
    \A ch \in DecisionChannels(period) :
    \A settings \in {[long_only |-> lo, long_leverage |-> leverage_long,
                      short_leverage |-> leverage_short] : lo \in BOOLEAN} :
        LiveDecision(ch, a, KeyOf("A", period), settings)
            = LiveDecision(ch, b, KeyOf("A", period), settings)

C25_ReloadStep ==
    (mode = "save" /\ save_pc = "done" /\ live_run' = live_run + 1) =>
        /\ DOMAIN current_positions' = DOMAIN current_positions
        /\ \A k \in DOMAIN current_positions : current_positions'[k] = current_positions[k]
        /\ SameDecisions(current_positions', current_positions)

CrashAlerts(msgs) == Cardinality({i \in 1..Len(msgs) : msgs[i].action = "CRASH"})

C26_FailureStep ==
    (mode = "main" /\ live_pc \in {"except", "finally", "del", "ended"}) =>
        /\ live_pc' \in {"finally", "del", "ended"}
        /\ orders' = orders
        /\ csv_log' = csv_log
        /\ positions_file' = positions_file
        /\ ticker_idx' = ticker_idx
        /\ period_idx' = period_idx
        /\ IF live_pc = "except"
           THEN live_log'.call = "SendMessage"
                    /\ CrashAlerts(alerts') = CrashAlerts(alerts)
                                                  + (IF live_log'.delivered THEN 1 ELSE 0)
           ELSE alerts' = alerts /\ live_log' = live_log

C26_Ended ==
    (mode = "main" /\ live_pc = "ended") =>
        /\ lock_handle[Self] = 0
        /\ \A i \in DOMAIN inode_lock : inode_lock[i] # Self
        /\ CrashAlerts(alerts) <= 1
        /\ (live_log.call = "SendMessage" /\ live_log.delivered) => CrashAlerts(alerts) = 1

C26_FatalAndReported == [][C26_FailureStep]_vars /\ []C26_Ended

\* the construction failed after the lock was taken: the crash was reported and the
\* lock was released though main's bot is still None
C26_Witness ==
    /\ mode = "main"
    /\ live_pc = "ended"
    /\ bot = "None"
    /\ lock_pc[Self] = "done"
    /\ live_log.call = "SendMessage"
    /\ CrashAlerts(alerts) = 1

\* run() failed after a slot had placed an order: the later slots were not processed
C26_RunFailed ==
    /\ mode = "main"
    /\ live_pc = "ended"
    /\ bot = "object"
    /\ orders # <<>>
    /\ live_log.call = "SendMessage"
    /\ ticker_idx = 1
    /\ period_idx = 2
    /\ lock_pc[Self] = "done"

(***************************************************************************)
(* C27.  Live-mode entry is reachable: for a FLAT slot with a valid        *)
(* volatility there is a daily candle series, every bar of which has       *)
(* low <= close <= high, on which run() finds long_signal or short_signal  *)
(* true and calls open_position.                                           *)
(***************************************************************************)
WellFormedBars ==
    {bar \in [high : Prices, low : Prices, close : Prices] :
        bar.low <= bar.close /\ bar.close <= bar.high}

\* every series of period + 2 well-formed candles
WellFormedWindows(period) ==
    {[i \in 1..(period + 2) |-> Row(i - period - 2, w[i])] :
        w \in [1..(period + 2) -> WellFormedBars]}

OpensOn(ohlcv, ticker, period) ==
    LET ch == get_donchian_channel(ohlcv, period) IN
    /\ ch.ok
    /\ LiveDecision(ch, current_positions, KeyOf(ticker, period),
                    coin_settings).call = "open_position"

C27_EntryReachable ==
    (/\ mode = "live"
     /\ live_pc = "slot"
     /\ KeyOf(active_coins[ticker_idx], donchian_periods[period_idx])
            \notin DOMAIN current_positions)
        => \E ohlcv \in WellFormedWindows(donchian_periods[period_idx]) :
              OpensOn(ohlcv, active_coins[ticker_idx], donchian_periods[period_idx])

(***************************************************************************)
(* C28.  Within one tick every (coin, period) slot undergoes at most one   *)
(* transition: the slot is visited once, a visit opens a position, closes  *)
(* one or does nothing, so that a slot is never opened and closed, nor     *)
(* closed and reopened or flipped, in the same tick, and a tick adds at    *)
(* most one trade record for a slot.                                       *)
(***************************************************************************)
Slots == {KeyOf(c, p) : c \in Coins, p \in PeriodSet}

\* the trade records the tick added for slot k
SlotRecords(k) ==
    {i \in (Len(trade_history) + 1)..Len(trade_history') :
        trade_history'[i].ticker = k.ticker /\ PeriodOf(trade_history'[i]) = k.period}

C28_BacktestStep ==
    TickStep =>
        \A k \in Slots :
            /\ Cardinality(SlotRecords(k)) <= 1
            /\ IF SlotRecords(k) = {}
               THEN (k \in DOMAIN positions) <=> (k \in DOMAIN positions')
               ELSE \A i \in SlotRecords(k) :
                       IF trade_history'[i].action = "OPEN"
                       THEN k \notin DOMAIN positions /\ k \in DOMAIN positions'
                       ELSE k \in DOMAIN positions /\ k \notin DOMAIN positions'

\* run() moves forward through the slots, and a visit makes at most one call
C28_LiveStep ==
    /\ (mode = "live" /\ live_pc = "slot") =>
          LET k == KeyOf(active_coins[ticker_idx], donchian_periods[period_idx]) IN
          /\ Len(orders') <= Len(orders) + 1
          /\ Len(csv_log') <= Len(csv_log) + 1
          /\ \A j \in Slots \ {k} :
                /\ (j \in DOMAIN current_positions) <=> (j \in DOMAIN current_positions')
                /\ j \in DOMAIN current_positions
                      => current_positions'[j] = current_positions[j]
          /\ (k \notin DOMAIN current_positions /\ k \in DOMAIN current_positions')
                => live_log'.call = "open_position"
          /\ (k \in DOMAIN current_positions /\ k \notin DOMAIN current_positions')
                => live_log'.call = "close_position"
          /\ \/ live_pc' = "slot" /\ ticker_idx' = ticker_idx
                   /\ period_idx' = period_idx + 1
             \/ live_pc' = "ticker" /\ ticker_idx' = ticker_idx + 1
    /\ (mode = "live" /\ live_pc = "ticker") =>
          /\ UNCHANGED <<current_positions, orders, csv_log>>
          /\ \/ live_pc' = "slot" /\ ticker_idx' = ticker_idx /\ period_idx' = 1
             \/ live_pc' = "ticker" /\ ticker_idx' = ticker_idx + 1
             \/ live_pc' = "finish" /\ ticker_idx' = ticker_idx

C28_OneTransitionPerTick == [][C28_BacktestStep /\ C28_LiveStep]_vars

\* a LONG position was closed in a tick whose close had also fallen below the
\* channel, with SHORT entries allowed: the slot is FLAT after the tick
C28_Witness ==
    /\ mode = "backtest"
    /\ ~long_only
    /\ trade_history # <<>>
    /\ LET last == trade_history[Len(trade_history)]
           k == KeyOf(last.ticker, PeriodOf(last))
       IN  /\ last.action = "CLOSE"
           /\ last.side = "LONG"
           /\ last.date = current_date
           /\ k \notin DOMAIN positions
           /\ \E i \in 1..Len(tick_log) :
                 /\ tick_log[i].kind = "channel"
                 /\ tick_log[i].coin = k.ticker
                 /\ tick_log[i].period = k.period
                 /\ NumLt(tick_log[i].last_close, tick_log[i].low)

\* a position of the positions file was closed by the visit of its slot
C28_LiveClosed ==
    /\ mode = "live"
    /\ live_log.ok
    /\ live_log.call = "close_position"
    /\ KeyOf(live_log.ticker, live_log.period) \notin DOMAIN current_positions

(***************************************************************************)
(* C29.  In the backtest, after every simulate_open and simulate_close,    *)
(* cash equals initial_capital plus the sum of pnl over all trade records, *)
(* so that at every snapshot                                               *)
(*   total equity - strategy_investment - unrealized PnL                   *)
(*       = cash - initial_capital.                                         *)
(***************************************************************************)
C29_CashIsRealizedPnl ==
    mode = "backtest" =>
        /\ cash = initial_capital + PnlSum(Len(trade_history), Coins)
        /\ portfolio_history # <<>> =>
              LET snapshot == portfolio_history[Len(portfolio_history)] IN
              snapshot.value - strategy_investment
                      - MarkSum(DOMAIN positions, current_date)
                  = snapshot.cash - initial_capital

\* a snapshot taken after a close with a realized gain or loss beyond its fee,
\* while another position is open and marked away from its entry price
C29_Witness ==
    /\ mode = "backtest"
    /\ portfolio_history # <<>>
    /\ \E i \in 1..Len(trade_history) :
          /\ trade_history[i].action = "CLOSE"
          /\ trade_history[i].price # 4
          /\ (trade_history[i].pnl + (trade_history[i].value * FeeNum) \div FeeDen) # 0
    /\ MarkSum(DOMAIN positions, current_date) # 0

(***************************************************************************)
(* C30.  The live ledger stays consistent with the exchange: whenever      *)
(* create_market_order returns successfully in open_position, a Position   *)
(* for the slot is recorded before the method returns, and whenever it     *)
(* returns successfully in close_position, the slot's Position is removed, *)
(* whatever the returned order holds (a missing price or amount included). *)
(***************************************************************************)
C30_CallStep ==
    (mode = "live_calls" /\ Len(orders') = Len(orders) + 1) =>
        LET k == KeyOf(live_log'.ticker, live_log'.period) IN
        IF live_log'.call = "open_position"
        THEN /\ k \in DOMAIN current_positions'
             /\ current_positions'[k].side = live_log'.side
        ELSE k \notin DOMAIN current_positions'

C30_LedgerFollowsExchange == [][C30_CallStep]_vars

====
